---- MODULE Spec2Model ----
(***************************************************************************)
(* A model of sordid-tools: the property registration protocol, the        *)
(* property hierarchy and the finite-state-machine layer built on them.    *)
(* Python objects are identified by small integers, a missing attribute is *)
(* the empty sequence and a stored attribute v is <<v>>.  An operation     *)
(* that raises leaves the name of the exception class in `result`.         *)
(***************************************************************************)
EXTENDS Integers, Sequences, FiniteSets, TLC

(* ------------------------------ bounds --------------------------------- *)
MaxStates == 2    \* State objects created
MaxEntries == 2   \* entries of a Transition's state_map
MaxAttrs == 2     \* attributes of a class body
MaxAccessors == 2 \* property objects
MaxValidators == 3 \* validator objects and plain functions
MaxCmp == 2       \* CMP constants and candidates range over -MaxCmp..MaxCmp
MaxChecks == 4    \* Check objects
MaxArgs == 3      \* arguments of a compound check's constructor
BitWidth == 8     \* bits in which & and | of check results are computed

StateIds == 1..MaxStates
TransIds == {1}   \* the Transition object
InstIds == {1}    \* the Machine instance
MachineTypes == {"M1", "M2"}
RunTypes == {"M1"}  \* the machine type SpecMachine declares
AttrNames == {"a", "b"}
AccIds == 1..MaxAccessors
PropTypes == {"HasProps", "T1", "T2"}  \* HasProps and two types derived from it
PlainTypes == {"C"}                    \* a class without configuration hooks
SlotTypes == {"A", "A__b"}             \* propertied types with an underscored name
SlotNames == {"c", "b__c"}             \* field names declared on them
ObjIds == {1}                          \* the instance of a propertied type
BaseOrderedIds == {21, 22}             \* instances of SourceOrdered itself
SubOrderedIds == {31, 32}              \* instances of a plain subclass of it
TwinIds == {1, 2}                      \* two instances of one type, side by side
StoreValues == {"None", "x", "y"}      \* values assigned to properties
CheckedIds == {11, 12, 13, 14}         \* the validated and the strict property objects
AllAccIds == AccIds \cup CheckedIds
TypedValues == {"None", "x", "", "0", "1", "-1", "1.5"}  \* None, str, int and float values

(* --------------------------- python values ----------------------------- *)
Absent == <<>>
Some(v) == <<v>>
Has(o) == o /= <<>>
Val(o) == o[1]

PyState(s) == [kind |-> "State", id |-> s]
PyTransition(t) == [kind |-> "Transition", id |-> t]
PyNone == [kind |-> "NoneType", id |-> 0]
PyInt == [kind |-> "int", id |-> 0]

EmptyMap == [x \in {} |-> 0]
Put(f, k, v) == [x \in (DOMAIN f) \cup {k} |-> IF x = k THEN v ELSE f[x]]

VARIABLES
  next_source_order,  \* SourceOrdered.__next_source_order
  source_order,       \* State objects created so far: id -> its source_order
  state_name,         \* State id -> stored value of State.name
  state_machine,      \* State id -> stored value of State.machine
  transitions,        \* Transition id -> the object's __state_map, once built
  mtypes,             \* machine type -> what its finalization left on the class
  machines,           \* Machine instance id -> its class and its stored state
  accessors,          \* property object -> its binding (cls, name, slot), if any
  ptypes,             \* propertied type -> status, parent and class body
  props_of,           \* HasProps type -> the dict object its __props refers to
  prop_dicts,         \* dict object -> field name -> property object
  objects,            \* instance -> its class and its attribute dict
  validators,         \* the validator objects and plain functions built so far
  check_objs,         \* the Check objects made so far, in order of creation
  calls,              \* the calls the last application made, in order
  result              \* outcome of the last operation

machineVars == <<next_source_order, source_order, state_name, state_machine,
                 transitions, mtypes, machines>>
propVars == <<accessors, ptypes, props_of, prop_dicts, objects>>
calcVars == <<validators, check_objs, calls>>
vars == <<next_source_order, source_order, state_name, state_machine,
          transitions, mtypes, machines, accessors, ptypes, props_of,
          prop_dicts, objects, validators, check_objs, calls, result>>

Created == DOMAIN source_order \cap StateIds
Built == {t \in TransIds : transitions[t].built}

NoResult == [op |-> "none", err |-> "None", ret |-> PyNone]
Outcome(op, err, ret) == [op |-> op, err |-> err, ret |-> ret]

(* ------------------------- property accessors -------------------------- *)
\* Mutant: the set of the base Property, which overwrites.
ReadOnlyProperty_set_overwrite(stored, value) ==
  [err |-> "None", stored |-> Some(value)]

\* Mutant: a stored None does not count as a value.
ReadOnlyProperty_set_unless_none(stored, value) ==
  IF Has(stored) /\ Val(stored) /= "None"
    THEN [err |-> "AttributeError", stored |-> stored]
    ELSE [err |-> "None", stored |-> Some(value)]

\* ReadOnlyProperty.__set__: getattr(instance, self.name) decides; a stored
\* value, whatever it is, makes the set fail.
ReadOnlyProperty_set(stored, value) ==
  IF Has(stored)
    THEN [err |-> "AttributeError", stored |-> stored]
    ELSE [err |-> "None", stored |-> Some(value)]

\* Mutant: None passes, and any other value of another type is reported as
\* invalid instead of raising.
type_validator_lenient(ptype, value) ==
  IF value.kind = ptype \/ value.kind = "NoneType" THEN "True" ELSE "False"

\* type_validator(property_type)(value), with ptype the property_type: raises
\* TypeError or returns True.
type_validator(ptype, value) ==
  IF value.kind /= ptype THEN "TypeError" ELSE "True"

\* Mutant: the value is stored whatever the validator call produced.
ValidatedProperty_set_unvalidated(stored, value, validated) ==
  [err |-> "None", stored |-> Some(value)]

\* ValidatedProperty.__set__ given what the validator call produced.
ValidatedProperty_set(stored, value, validated) ==
  IF validated = "True" THEN [err |-> "None", stored |-> Some(value)]
  ELSE IF validated = "False" THEN [err |-> "ValueError", stored |-> stored]
  ELSE [err |-> validated, stored |-> stored]

\* The Python value a stored token stands for: its type, its truth value
\* and, for a number, ten times its value.
TypeOf(v) ==
  IF v = "None" THEN "NoneType"
  ELSE IF v \in {"0", "1", "-1"} THEN "int"
  ELSE IF v = "1.5" THEN "float"
  ELSE "str"
Truthy(v) == v \notin {"None", "", "0"}
Tenfold(v) == IF v = "0" THEN 0 ELSE IF v = "1" THEN 10 ELSE IF v = "-1" THEN -10 ELSE 15
PyTyped(v) == [kind |-> TypeOf(v), id |-> 0, value |-> v]

\* A validator function applied to a value: "True", "False" or the
\* exception it raises (int >= None and int >= str raise TypeError).
call_validator(validator, v) ==
  IF validator = "bool" THEN (IF Truthy(v) THEN "True" ELSE "False")
  ELSE IF TypeOf(v) \notin {"int", "float"} THEN "TypeError"
  ELSE IF Tenfold(v) >= 0 THEN "True" ELSE "False"

(* ------------------------------- State --------------------------------- *)
\* SourceOrdered.__init__ through State(): the next free identity gets the
\* counter's value and the counter moves on.
\* Mutant: the counter stays where it was.
SourceOrdered_init_stuck(next) == [source_order |-> next, next |-> next]

\* SourceOrdered.__init__: the instance takes the counter it reads through
\* itself, and SourceOrdered's counter is incremented.
SourceOrdered_init(next) == [source_order |-> next, next |-> next + 1]

\* SourceOrdered() and SubClass(), for a subclass that defines nothing.
NewSourceOrdered(i) ==
  /\ i \in BaseOrderedIds \cup SubOrderedIds
  /\ i \notin DOMAIN source_order
  /\ LET r == SourceOrdered_init(next_source_order) IN
       /\ source_order' = Put(source_order, i, r.source_order)
       /\ next_source_order' = r.next
  /\ result' = Outcome("SourceOrdered", "None", PyNone)
  /\ UNCHANGED propVars
  /\ UNCHANGED calcVars
  /\ UNCHANGED <<state_name, state_machine, transitions, mtypes, machines>>

NewState ==
  /\ Cardinality(Created) < MaxStates
  /\ LET s == Cardinality(Created) + 1
         r == SourceOrdered_init(next_source_order)
     IN
       /\ source_order' = Put(source_order, s, r.source_order)
       /\ next_source_order' = r.next
       /\ result' = Outcome("State", "None", PyState(s))
  /\ UNCHANGED propVars
  /\ UNCHANGED calcVars
  /\ UNCHANGED <<state_name, state_machine, transitions, mtypes, machines>>

(* ------------------------ registration protocol ------------------------ *)
PyType(n) == [istype |-> TRUE, name |-> n]
PyStr(s) == [isstr |-> TRUE, text |-> s]

\* The value has a __config__ attribute (config_prop_name's try/except).
HasConfigHook(value) ==
  value.kind \in {"Property", "ReadOnlyProperty", "PropDesc",
                  "ValidatedProperty", "StrictProperty"}

\* config_prop_name, up to the lookup of value.__config__: the exception the
\* three argument checks raise, in the order the code makes them.
\* Mutant: the empty name is let through.
config_prop_name_check_nonempty(cls, name) ==
  IF ~cls.istype THEN "TypeError"
  ELSE IF ~name.isstr THEN "TypeError"
  ELSE "None"

config_prop_name_check(cls, name) ==
  IF ~cls.istype THEN "TypeError"
  ELSE IF ~name.isstr THEN "TypeError"
  ELSE IF name.text = "" THEN "ValueError"
  ELSE "None"

(* ----------------------------- Transition ------------------------------ *)
\* Keys of a state_map: one State, or a tuple of States.
StateKeys == {[kind |-> "State", items |-> <<s>>] : s \in StateIds}
TupleKeys == {[kind |-> "tuple", items |-> <<p[1], p[2]>>] :
                 p \in {q \in StateIds \X StateIds : q[1] < q[2]}}
Entries == [key : StateKeys \cup TupleKeys, to : StateIds]
\* state_map arguments: a dict's items, in the order the dict yields them.
StateMaps ==
  UNION {{m \in [1..n -> Entries] :
            \A i, j \in 1..n : i /= j => m[i].key /= m[j].key} : n \in 0..MaxEntries}
\* The State objects a state_map mentions.
StatesOf(state_map) ==
  UNION {{state_map[k].key.items[j] : j \in DOMAIN state_map[k].key.items}
           \cup {state_map[k].to} : k \in DOMAIN state_map}

\* `if isinstance(froms, State): froms = [froms]`
Froms(key) == IF key.kind = "State" THEN <<key.items[1]>> ELSE key.items

\* `for next_from in froms:` of Transition.__init__; seen_froms is read and
\* never added to.
RECURSIVE Transition_froms(_, _, _, _)
Transition_froms(froms, to, seen_froms, final_state_map) ==
  IF froms = <<>> THEN [err |-> "None", final_state_map |-> final_state_map]
  ELSE IF Head(froms) \in seen_froms
    THEN [err |-> "AssertionError", final_state_map |-> final_state_map]
  ELSE Transition_froms(Tail(froms), to, seen_froms,
                        Put(final_state_map, Head(froms), to))

\* `for froms, to in state_map.items():` of Transition.__init__; the object's
\* __state_map is assigned at the end of each pass, so an empty state_map
\* leaves the attribute missing.
RECURSIVE Transition_init(_, _, _, _)
Transition_init(state_map, seen_froms, final_state_map, attr) ==
  IF state_map = <<>> THEN [err |-> "None", state_map |-> attr]
  ELSE LET e == Head(state_map)
           r == Transition_froms(Froms(e.key), e.to, seen_froms, final_state_map)
       IN IF r.err /= "None" THEN [err |-> r.err, state_map |-> Absent]
          ELSE Transition_init(Tail(state_map), seen_froms, r.final_state_map,
                               Some(r.final_state_map))

\* Transition.get_next_state_from: self.__state_map.get(state, None).
get_next_state_from(t, state) ==
  IF ~Has(transitions[t].state_map) THEN [err |-> "AttributeError", ret |-> PyNone]
  ELSE LET m == Val(transitions[t].state_map) IN
       IF state.kind = "State" /\ state.id \in DOMAIN m
         THEN [err |-> "None", ret |-> PyState(m[state.id])]
         ELSE [err |-> "None", ret |-> PyNone]

Unbuilt == [built |-> FALSE, state_map |-> Absent]

\* Transition(state_map): the object exists only if __init__ returns.
NewTransition(t, state_map) ==
  /\ ~transitions[t].built
  /\ StatesOf(state_map) \subseteq Created
  /\ LET r == Transition_init(state_map, {}, EmptyMap, Absent)
     IN IF r.err = "None"
          THEN /\ transitions' = [transitions EXCEPT
                     ![t] = [built |-> TRUE, state_map |-> r.state_map]]
               /\ result' = Outcome("Transition", "None", PyTransition(t))
          ELSE /\ transitions' = transitions
               /\ result' = Outcome("Transition", r.err, PyNone)
  /\ UNCHANGED propVars
  /\ UNCHANGED calcVars
  /\ UNCHANGED <<next_source_order, source_order, state_name, state_machine,
                 mtypes, machines>>

(* ------------------------------ Machine -------------------------------- *)
BodyValues == {PyState(s) : s \in StateIds} \cup {PyTransition(t) : t \in TransIds}
                \cup {PyInt}
Attrs == [name : AttrNames, value : BodyValues]
\* Class bodies: attribute name -> value, in the order the class dict yields.
ClassBodies ==
  UNION {{b \in [1..n -> Attrs] :
            \A i, j \in 1..n : i /= j => b[i].name /= b[j].name} : n \in 0..MaxAttrs}

NoMachineType == [status |-> "absent", state_by_name |-> EmptyMap,
                  transition_by_name |-> EmptyMap, state_names |-> <<>>,
                  INIT |-> Absent]

\* Mutant: the sort runs from the latest State to the earliest.
RECURSIVE sorted_reversed(_)
sorted_reversed(states) ==
  IF states = {} THEN <<>>
  ELSE LET last == CHOOSE x \in states :
                     \A y \in states : source_order[x] >= source_order[y]
       IN <<last>> \o sorted_reversed(states \ {last})

\* sorted(states, key=lambda state: state.source_order)
RECURSIVE sorted_by_source_order(_)
sorted_by_source_order(states) ==
  IF states = {} THEN <<>>
  ELSE LET first == CHOOSE x \in states :
                      \A y \in states : source_order[x] <= source_order[y]
       IN <<first>> \o sorted_by_source_order(states \ {first})

\* Machine.__config_prop__(name, value) on the configuration so far.
\* config_prop_name returns False for every value without a __config__ hook.
Machine_config_prop(cls, name, value, acc) ==
  LET chk == config_prop_name_check(PyType(cls), PyStr(name)) IN
  IF chk /= "None" THEN [acc EXCEPT !.err = chk]
  ELSE IF HasConfigHook(value) THEN acc
  ELSE IF value.kind = "State" THEN
    LET s == value.id
        n == ReadOnlyProperty_set(acc.state_name[s], name)
        m == ReadOnlyProperty_set(acc.state_machine[s], cls)
    IN IF n.err /= "None" THEN [acc EXCEPT !.err = n.err]
       ELSE IF m.err /= "None"
         THEN [acc EXCEPT !.err = m.err, !.state_name[s] = n.stored]
       ELSE [acc EXCEPT !.state_name[s] = n.stored,
                        !.state_machine[s] = m.stored,
                        !.state_by_name = Put(@, name, s)]
  ELSE IF value.kind = "Transition"
    THEN [acc EXCEPT !.transition_by_name = Put(@, name, value.id)]
  ELSE acc

\* `for name, value in attrs.items(): props.config_prop(cls, name, value)`;
\* the first exception ends the loop.
RECURSIVE Machine_config_loop(_, _, _)
Machine_config_loop(cls, attrs, acc) ==
  IF attrs = <<>> \/ acc.err /= "None" THEN acc
  ELSE Machine_config_loop(cls, Tail(attrs),
         Machine_config_prop(cls, Head(attrs).name, Head(attrs).value, acc))

\* Machine.__config_props__(attrs), run by PropertiedType.__init__.
Machine_config_props(cls, attrs) ==
  LET acc == Machine_config_loop(cls, attrs,
               [err |-> "None", state_name |-> state_name,
                state_machine |-> state_machine, state_by_name |-> EmptyMap,
                transition_by_name |-> EmptyMap])
      declared == {acc.state_by_name[n] : n \in DOMAIN acc.state_by_name}
      state_names == sorted_by_source_order(declared)
  IN [err |-> acc.err, state_name |-> acc.state_name,
      state_machine |-> acc.state_machine,
      mtype |-> IF acc.err /= "None" THEN [NoMachineType EXCEPT !.status = "failed"]
                ELSE [status |-> "ok", state_by_name |-> acc.state_by_name,
                      transition_by_name |-> acc.transition_by_name,
                      state_names |-> state_names,
                      INIT |-> IF DOMAIN acc.state_by_name /= {}
                                 THEN Some(state_names[1]) ELSE Absent]]

\* `class cls(Machine): <body>`.
\* The body's values exist when the class statement runs.
Exists(value) ==
  /\ value.kind = "State" => value.id \in Created
  /\ value.kind = "Transition" => value.id \in Built

DeclareMachine(cls, body) ==
  /\ mtypes[cls].status = "absent"
  /\ \A k \in DOMAIN body : Exists(body[k].value)
  /\ LET r == Machine_config_props(cls, body) IN
       /\ state_name' = r.state_name
       /\ state_machine' = r.state_machine
       /\ mtypes' = [mtypes EXCEPT ![cls] = r.mtype]
       /\ result' = Outcome("class", r.err, PyNone)
  /\ UNCHANGED propVars
  /\ UNCHANGED calcVars
  /\ UNCHANGED <<next_source_order, source_order, transitions, machines>>

Alive == {i \in DOMAIN machines : Has(machines[i].cls)}
NoMachine == [cls |-> Absent, state |-> Absent]

\* Machine.__init__: self.INIT raises AttributeError when the class has no
\* INIT of its own; otherwise the state property is set to it.
Machine_init(cls) ==
  IF ~Has(mtypes[cls].INIT) THEN [err |-> "None", stored |-> Absent]
  ELSE LET initial_state == PyState(Val(mtypes[cls].INIT)) IN
       ValidatedProperty_set(Absent, initial_state,
                             type_validator("State", initial_state))

\* `cls()`
NewMachine(i, cls) ==
  /\ mtypes[cls].status = "ok"
  /\ i \notin Alive
  /\ LET r == Machine_init(cls)
     IN /\ machines' = IF r.err = "None"
                         THEN [machines EXCEPT ![i] = [cls |-> Some(cls),
                                                       state |-> r.stored]]
                         ELSE machines
        /\ result' = Outcome("Machine", r.err, PyNone)
  /\ UNCHANGED propVars
  /\ UNCHANGED calcVars
  /\ UNCHANGED <<next_source_order, source_order, state_name, state_machine,
                 transitions, mtypes>>

\* `machine.state = value` through the ValidatedProperty.
AssignState(i, value) ==
  /\ i \in Alive
  /\ LET r == ValidatedProperty_set(machines[i].state, value,
                                    type_validator("State", value))
     IN /\ machines' = [machines EXCEPT ![i].state = r.stored]
        /\ result' = Outcome("state=", r.err, PyNone)
  /\ UNCHANGED propVars
  /\ UNCHANGED calcVars
  /\ UNCHANGED <<next_source_order, source_order, state_name, state_machine,
                 transitions, mtypes>>

\* Transitioner.next_state: reading machine.state raises when nothing is stored.
Transitioner_next_state(i, t) ==
  IF ~Has(machines[i].state) THEN [err |-> "AttributeError", ret |-> PyNone]
  ELSE get_next_state_from(t, Val(machines[i].state))

\* Mutant: the destination is returned and never assigned to the machine.
Transitioner_call_unassigned(i, t) ==
  LET next_state == Transitioner_next_state(i, t) IN
  [err |-> IF next_state.err /= "None" THEN next_state.err
           ELSE IF next_state.ret = PyNone THEN "NameError" ELSE "None",
   stored |-> machines[i].state, ret |-> next_state.ret]

\* Transitioner.__call__: the raise statement names IllegalTransitionError,
\* which the module does not define, so evaluating it raises NameError.
Transitioner_call(i, t) ==
  LET next_state == Transitioner_next_state(i, t) IN
  IF next_state.err /= "None"
    THEN [err |-> next_state.err, stored |-> machines[i].state, ret |-> PyNone]
  ELSE IF next_state.ret = PyNone
    THEN [err |-> "NameError", stored |-> machines[i].state, ret |-> PyNone]
  ELSE LET r == ValidatedProperty_set(machines[i].state, next_state.ret,
                                      type_validator("State", next_state.ret))
       IN [err |-> r.err, stored |-> r.stored,
           ret |-> IF r.err = "None" THEN next_state.ret ELSE PyNone]

\* `machine.<name>()` for a transition the machine's class declares.
CallTransitioner(i, name) ==
  /\ i \in Alive
  /\ name \in DOMAIN mtypes[Val(machines[i].cls)].transition_by_name
  /\ LET t == mtypes[Val(machines[i].cls)].transition_by_name[name]
         r == Transitioner_call(i, t)
     IN /\ machines' = [machines EXCEPT ![i].state = r.stored]
        /\ result' = Outcome("call", r.err, r.ret)
  /\ UNCHANGED propVars
  /\ UNCHANGED calcVars
  /\ UNCHANGED <<next_source_order, source_order, state_name, state_machine,
                 transitions, mtypes>>

\* `machine.<name>.next_state` read for a transition the machine's class
\* declares; the property assigns nothing.
ReadNextState(i, name) ==
  /\ i \in Alive
  /\ name \in DOMAIN mtypes[Val(machines[i].cls)].transition_by_name
  /\ LET t == mtypes[Val(machines[i].cls)].transition_by_name[name]
         r == Transitioner_next_state(i, t)
     IN result' = Outcome("next_state", r.err, r.ret)
  /\ UNCHANGED propVars
  /\ UNCHANGED calcVars
  /\ UNCHANGED <<next_source_order, source_order, state_name, state_machine,
                 transitions, mtypes, machines>>

\* `state.name = value` and `state.machine = cls` written by hand.
AssignStateName(s, name) ==
  /\ s \in Created
  /\ LET r == ReadOnlyProperty_set(state_name[s], name) IN
       /\ state_name' = [state_name EXCEPT ![s] = r.stored]
       /\ result' = Outcome("name=", r.err, PyNone)
  /\ UNCHANGED propVars
  /\ UNCHANGED calcVars
  /\ UNCHANGED <<next_source_order, source_order, state_machine, transitions,
                 mtypes, machines>>

AssignStateMachine(s, cls) ==
  /\ s \in Created
  /\ LET r == ReadOnlyProperty_set(state_machine[s], cls) IN
       /\ state_machine' = [state_machine EXCEPT ![s] = r.stored]
       /\ result' = Outcome("machine=", r.err, PyNone)
  /\ UNCHANGED propVars
  /\ UNCHANGED calcVars
  /\ UNCHANGED <<next_source_order, source_order, state_name, transitions,
                 mtypes, machines>>

(* ------------------------- propertied classes -------------------------- *)
\* Property objects: 11 and 12 are ValidatedProperty, 13 and 14 StrictProperty;
\* of the others the odd ones are ReadOnlyProperty, the even ones Property.
AccKind(a) ==
  IF a \in {11, 12} THEN "ValidatedProperty"
  ELSE IF a \in {13, 14} THEN "StrictProperty"
  ELSE IF a % 2 = 1 THEN "ReadOnlyProperty" ELSE "Property"
\* ValidatedProperty(lambda value: bool(value)), ValidatedProperty(lambda
\* value: value >= 0), StrictProperty(str), StrictProperty(int).
validator_of(a) == IF a = 11 THEN "bool" ELSE "nonneg"
property_type(a) == IF a = 13 THEN "str" ELSE "int"
PyAcc(a) == [kind |-> AccKind(a), id |-> a]
PyBool(b) == [kind |-> "bool", id |-> IF b THEN 1 ELSE 0]
PropValues == {PyAcc(a) : a \in AccIds} \cup {PyInt}
NotAType == [istype |-> FALSE, name |-> "1"]
NotAStr == [isstr |-> FALSE, text |-> "1"]

\* '_%s__%s' % (cls.__name__, name)
attribute_name(cls, name) == "_" \o cls \o "__" \o name

\* Property.__config__(cls, name).  The raise statement names
\* IllegalStateError, which the module neither defines nor imports, so
\* evaluating it raises NameError.
Property_config(binding, cls, name) ==
  IF Has(binding) /\ Val(binding).name /= ""
    THEN [err |-> "NameError", binding |-> binding]
    ELSE [err |-> "None",
          binding |-> Some([cls |-> cls, name |-> name,
                            attribute_name |-> attribute_name(cls, name)])]

\* config_prop_name(cls, name, value) on the property objects `accs`.
config_prop_name(cls, name, value, accs) ==
  LET chk == config_prop_name_check(cls, name) IN
  IF chk /= "None" THEN [err |-> chk, ret |-> FALSE, accessors |-> accs]
  ELSE IF ~HasConfigHook(value) THEN [err |-> "None", ret |-> FALSE, accessors |-> accs]
  ELSE LET r == Property_config(accs[value.id], cls.name, name.text) IN
       [err |-> r.err, ret |-> r.err = "None",
        accessors |-> [accs EXCEPT ![value.id] = r.binding]]

\* config_props(cls, attrs) on a class without __config_props__ and
\* __config_prop__: config_prop_name on every item until one raises.
RECURSIVE config_props(_, _, _)
config_props(cls, attrs, acc) ==
  IF attrs = <<>> \/ acc.err /= "None" THEN acc
  ELSE LET r == config_prop_name(cls, Head(attrs).name, Head(attrs).value,
                                 acc.accessors)
       IN config_props(cls, Tail(attrs), [err |-> r.err, accessors |-> r.accessors])

\* `cls.__props = dict(props.iteritems())`: the dict object cls.__props names
\* afterwards is a new one, identified here by the class that made it.
HasProps_new_props(cls, inherited) == cls

\* HasProps.__config_prop__(name, value), writing into dict object `ref`.
HasProps_config_prop(cls, ref, name, value, acc) ==
  LET r == config_prop_name(PyType(cls), PyStr(name), value, acc.accessors) IN
  IF r.err /= "None" THEN [acc EXCEPT !.err = r.err]
  ELSE IF r.ret THEN [acc EXCEPT !.accessors = r.accessors,
                                 !.prop_dicts[ref] = Put(@, name, value.id)]
  ELSE acc

RECURSIVE HasProps_config_loop(_, _, _, _)
HasProps_config_loop(cls, ref, attrs, acc) ==
  IF attrs = <<>> \/ acc.err /= "None" THEN acc
  ELSE HasProps_config_loop(cls, ref, Tail(attrs),
         HasProps_config_prop(cls, ref, Head(attrs).name, Head(attrs).value, acc))

\* HasProps.__config_props__(attrs) for a class whose base is `parent`:
\* cls.__props is found on the parent, copied, and overlaid.
HasProps_config_props(cls, parent, attrs) ==
  LET inherited == Val(props_of[parent])
      ref == HasProps_new_props(cls, inherited)
      acc == HasProps_config_loop(cls, ref, attrs,
               [err |-> "None", accessors |-> accessors,
                prop_dicts |-> [prop_dicts EXCEPT ![ref] = prop_dicts[inherited]]])
  IN [err |-> acc.err, accessors |-> acc.accessors, ref |-> ref,
      prop_dicts |-> acc.prop_dicts]

PropAttrs == [name : AttrNames, value : PropValues]
PropBodies ==
  UNION {{b \in [1..n -> PropAttrs] :
            \A i, j \in 1..n : i /= j => b[i].name /= b[j].name} : n \in 0..MaxAttrs}

NoPropType == [status |-> "absent", parent |-> Absent, body |-> <<>>]

\* `class cls(parent): <body>` for a parent derived from HasProps.  A class
\* statement that raises leaves no class, and its dict object is garbage.
DeclareHasProps(cls, parent, body) ==
  /\ ptypes[cls].status = "absent"
  /\ ptypes[parent].status = "ok"
  /\ LET r == HasProps_config_props(cls, parent, body) IN
       /\ accessors' = r.accessors
       /\ IF r.err = "None"
            THEN /\ ptypes' = [ptypes EXCEPT ![cls] = [status |-> "ok",
                                  parent |-> Some(parent), body |-> body]]
                 /\ props_of' = [props_of EXCEPT ![cls] = Some(r.ref)]
                 /\ prop_dicts' = r.prop_dicts
            ELSE /\ ptypes' = [ptypes EXCEPT ![cls] = [NoPropType EXCEPT
                                                        !.status = "failed"]]
                 /\ props_of' = props_of
                 /\ prop_dicts' = [r.prop_dicts EXCEPT ![cls] = EmptyMap]
       /\ result' = Outcome("class", r.err, PyNone)
  /\ UNCHANGED objects
  /\ UNCHANGED machineVars
  /\ UNCHANGED calcVars

\* config_prop_name(owner, name, value) called directly.
ConfigPropName(owner, name, value) ==
  /\ LET r == config_prop_name(owner, name, value, accessors) IN
       /\ accessors' = r.accessors
       /\ result' = Outcome("config_prop_name", r.err, PyBool(r.ret))
  /\ UNCHANGED <<ptypes, props_of, prop_dicts, objects>>
  /\ UNCHANGED machineVars
  /\ UNCHANGED calcVars

ArgNames == {PyStr("a"), PyStr(""), NotAStr}
ArgAttrs == [name : ArgNames, value : PropValues]
ArgDicts ==
  UNION {{b \in [1..n -> ArgAttrs] :
            \A i, j \in 1..n : i /= j => b[i].name /= b[j].name} : n \in 0..MaxAttrs}

\* config_props(owner, attrs) called directly on a class without overrides.
ConfigProps(owner, attrs) ==
  /\ LET r == config_props(owner, attrs, [err |-> "None", accessors |-> accessors]) IN
       /\ accessors' = r.accessors
       /\ result' = Outcome("config_props", r.err, PyNone)
  /\ UNCHANGED <<ptypes, props_of, prop_dicts, objects>>
  /\ UNCHANGED machineVars
  /\ UNCHANGED calcVars

(* ------------------------------ instances ------------------------------ *)
NoObject == [cls |-> Absent, attrs |-> [x \in {} |-> "None"]]

\* Class attribute lookup along the base classes.
RECURSIVE class_attr(_, _)
class_attr(cls, name) ==
  IF \E k \in DOMAIN ptypes[cls].body : ptypes[cls].body[k].name = name
    THEN Some(ptypes[cls].body[CHOOSE k \in DOMAIN ptypes[cls].body :
                                 ptypes[cls].body[k].name = name].value)
  ELSE IF Has(ptypes[cls].parent) THEN class_attr(Val(ptypes[cls].parent), name)
  ELSE Absent

\* Mutant: the attribute lands on every instance there is.
instance_setattr_shared(objs, o, attrs) ==
  [x \in DOMAIN objs |-> IF Has(objs[x].cls) THEN [objs[x] EXCEPT !.attrs = attrs]
                         ELSE objs[x]]

\* setattr(instance, ...) and delattr(instance, ...): the attributes of the
\* one instance become attrs.
instance_setattr(objs, o, attrs) == [objs EXCEPT ![o].attrs = attrs]

\* Property.__get__ on an instance: Property.__get_property__ reads the slot.
Property_get(a, attrs) ==
  IF ~Has(accessors[a]) THEN [err |-> "AttributeError", stored |-> Absent]
  ELSE IF Val(accessors[a]).attribute_name \in DOMAIN attrs
    THEN [err |-> "None", stored |-> Some(attrs[Val(accessors[a]).attribute_name])]
  ELSE [err |-> "AttributeError", stored |-> Absent]

\* getattr(instance, name) for a name the instance's class chain may define.
getattr(cls, attrs, name) ==
  LET found == class_attr(cls, name) IN
  IF Has(found) /\ HasConfigHook(Val(found)) THEN Property_get(Val(found).id, attrs)
  ELSE [err |-> "AttributeError", stored |-> Absent]

\* Mutant: a value already stored is kept.
Property_set_keep(a, attrs, value) ==
  IF ~Has(accessors[a]) THEN [err |-> "AttributeError", attrs |-> attrs]
  ELSE IF Val(accessors[a]).attribute_name \in DOMAIN attrs
    THEN [err |-> "None", attrs |-> attrs]
  ELSE [err |-> "None", attrs |-> Put(attrs, Val(accessors[a]).attribute_name, value)]

\* Property.__set__: setattr(instance, self.__attribute_name, value).
Property_set(a, attrs, value) ==
  IF ~Has(accessors[a]) THEN [err |-> "AttributeError", attrs |-> attrs]
  ELSE [err |-> "None", attrs |-> Put(attrs, Val(accessors[a]).attribute_name, value)]

\* `instance.<name> = value` where <name> finds property object a.
\* ReadOnlyProperty.__set__ asks getattr(instance, self.name) first and hands
\* over to Property.__set__ only if that raises AttributeError.
Accessor_set(a, cls, attrs, value) ==
  IF AccKind(a) = "ReadOnlyProperty" THEN
    LET seen == IF Has(accessors[a])
                  THEN getattr(cls, attrs, Val(accessors[a]).name).stored
                  ELSE Absent
        r == ReadOnlyProperty_set(seen, value)
    IN IF r.err /= "None" THEN [err |-> r.err, attrs |-> attrs]
       ELSE Property_set(a, attrs, Val(r.stored))
  ELSE IF AccKind(a) \in {"ValidatedProperty", "StrictProperty"} THEN
    \* ValidatedProperty.__set__: the validator is called first; the
    \* ValueError message reads self.name, which raises AttributeError on a
    \* property that is not configured.
    LET validated == IF AccKind(a) = "StrictProperty"
                       THEN type_validator(property_type(a), PyTyped(value))
                       ELSE call_validator(validator_of(a), value)
        r == ValidatedProperty_set(Absent, value, validated)
    IN IF r.err = "ValueError" /\ ~Has(accessors[a])
         THEN [err |-> "AttributeError", attrs |-> attrs]
       ELSE IF r.err /= "None" THEN [err |-> r.err, attrs |-> attrs]
       ELSE Property_set(a, attrs, Val(r.stored))
  ELSE Property_set(a, attrs, value)

\* `cls()` for a propertied class.
NewObject(o, cls) ==
  /\ ~Has(objects[o].cls)
  /\ ptypes[cls].status = "ok"
  /\ objects' = [objects EXCEPT ![o] = [cls |-> Some(cls), attrs |-> NoObject.attrs]]
  /\ result' = Outcome("object", "None", PyNone)
  /\ UNCHANGED <<accessors, ptypes, props_of, prop_dicts>>
  /\ UNCHANGED machineVars
  /\ UNCHANGED calcVars

\* `o.<name> = value` for a name that finds a property object.
SetAttr(o, name, value) ==
  /\ Has(objects[o].cls)
  /\ LET found == class_attr(Val(objects[o].cls), name) IN
       /\ Has(found) /\ HasConfigHook(Val(found))
       /\ LET r == Accessor_set(Val(found).id, Val(objects[o].cls),
                                objects[o].attrs, value)
          IN /\ objects' = instance_setattr(objects, o, r.attrs)
             /\ result' = Outcome("set", r.err, PyNone)
  /\ UNCHANGED <<accessors, ptypes, props_of, prop_dicts>>
  /\ UNCHANGED machineVars
  /\ UNCHANGED calcVars

\* A stored value as the result of an operation.
PyValue(v) == [kind |-> "value", id |-> 0, value |-> v]

\* `o.<name>` for a name that finds a property object.
GetAttr(o, name) ==
  /\ Has(objects[o].cls)
  /\ LET found == class_attr(Val(objects[o].cls), name) IN
       /\ Has(found) /\ HasConfigHook(Val(found))
       /\ LET r == getattr(Val(objects[o].cls), objects[o].attrs, name)
          IN result' = Outcome("get", r.err,
                               IF r.err = "None" THEN PyValue(Val(r.stored)) ELSE PyNone)
  /\ UNCHANGED propVars
  /\ UNCHANGED machineVars
  /\ UNCHANGED calcVars

\* Mutant: ReadOnlyProperty deletes as the base Property does.
Accessor_delete_inherited(a, attrs) ==
  IF ~Has(accessors[a])
    THEN [err |-> "AttributeError", attrs |-> attrs]
  ELSE IF Val(accessors[a]).attribute_name \notin DOMAIN attrs
    THEN [err |-> "AttributeError", attrs |-> attrs]
  ELSE [err |-> "None",
        attrs |-> [k \in DOMAIN attrs \ {Val(accessors[a]).attribute_name} |-> attrs[k]]]

\* `del instance.<name>` where <name> finds property object a.
Accessor_delete(a, attrs) ==
  IF AccKind(a) = "ReadOnlyProperty" \/ ~Has(accessors[a])
    THEN [err |-> "AttributeError", attrs |-> attrs]
  ELSE IF Val(accessors[a]).attribute_name \notin DOMAIN attrs
    THEN [err |-> "AttributeError", attrs |-> attrs]
  ELSE [err |-> "None",
        attrs |-> [k \in DOMAIN attrs \ {Val(accessors[a]).attribute_name} |-> attrs[k]]]

\* `del o.<name>` for a name that finds a property object.
DelAttr(o, name) ==
  /\ Has(objects[o].cls)
  /\ LET found == class_attr(Val(objects[o].cls), name) IN
       /\ Has(found) /\ HasConfigHook(Val(found))
       /\ LET r == Accessor_delete(Val(found).id, objects[o].attrs)
          IN /\ objects' = instance_setattr(objects, o, r.attrs)
             /\ result' = Outcome("del", r.err, PyNone)
  /\ UNCHANGED <<accessors, ptypes, props_of, prop_dicts>>
  /\ UNCHANGED machineVars
  /\ UNCHANGED calcVars

(* ----------------------------- plain classes --------------------------- *)
AllPropValues == {PyAcc(a) : a \in AllAccIds}
PlainAttrs == [name : AttrNames, value : AllPropValues]
PlainBodies ==
  UNION {{b \in [1..n -> PlainAttrs] :
            \A i, j \in 1..n : i /= j => b[i].name /= b[j].name} : n \in 1..MaxAttrs}

\* `class cls(object): <body>`: no metaclass, so nothing is configured.
DeclarePlain(cls, body) ==
  /\ ptypes[cls].status = "absent"
  /\ ptypes' = [ptypes EXCEPT ![cls] = [status |-> "ok", parent |-> Absent,
                                        body |-> body]]
  /\ result' = Outcome("class", "None", PyNone)
  /\ UNCHANGED <<accessors, props_of, prop_dicts, objects>>
  /\ UNCHANGED machineVars
  /\ UNCHANGED calcVars

\* dir(cls) lists the attribute names in alphabetical order.
DirOrder == <<"a", "b">>
dir_attrs(body) ==
  LET named(n) == {k \in DOMAIN body : body[k].name = n}
      item(n) == [name |-> PyStr(n), value |-> body[CHOOSE k \in named(n) : TRUE].value]
      first == IF named(DirOrder[1]) = {} THEN <<>> ELSE <<item(DirOrder[1])>>
      second == IF named(DirOrder[2]) = {} THEN <<>> ELSE <<item(DirOrder[2])>>
  IN first \o second

\* config_props(cls) with attrs left out: every attribute dir(cls) lists.
ConfigClass(cls) ==
  /\ ptypes[cls].status = "ok"
  /\ LET r == config_props(PyType(cls), dir_attrs(ptypes[cls].body),
                           [err |-> "None", accessors |-> accessors]) IN
       /\ accessors' = r.accessors
       /\ result' = Outcome("config_props", r.err, PyNone)
  /\ UNCHANGED <<ptypes, props_of, prop_dicts, objects>>
  /\ UNCHANGED machineVars
  /\ UNCHANGED calcVars

\* `cls.<name>` for a name that finds a property object: Property.__get__
\* with instance None returns the property object.
TypeGet(cls, name) ==
  /\ ptypes[cls].status = "ok"
  /\ LET found == class_attr(cls, name) IN
       /\ Has(found) /\ HasConfigHook(Val(found))
       /\ result' = Outcome("type_get", "None", Val(found))
  /\ UNCHANGED propVars
  /\ UNCHANGED machineVars
  /\ UNCHANGED calcVars

\* Mutant: the name is handed out without the configured check.
Property_name_unchecked(a) == [err |-> "None", ret |-> PyNone]

\* Property.name and Property.cls of property object a.
Property_name(a) ==
  IF ~Has(accessors[a]) \/ Val(accessors[a]).name = ""
    THEN [err |-> "AttributeError", ret |-> PyNone]
    ELSE [err |-> "None", ret |-> PyValue(Val(accessors[a]).name)]
Property_cls(a) ==
  IF ~Has(accessors[a]) \/ Val(accessors[a]).name = ""
    THEN [err |-> "AttributeError", ret |-> PyNone]
    ELSE [err |-> "None", ret |-> PyValue(Val(accessors[a]).cls)]

\* `cls.<attr>.name` and `cls.<attr>.cls` for an attribute that is a property.
ReadName(cls, attr) ==
  /\ ptypes[cls].status = "ok"
  /\ LET found == class_attr(cls, attr) IN
       /\ Has(found) /\ HasConfigHook(Val(found))
       /\ result' = Outcome("name", Property_name(Val(found).id).err,
                            Property_name(Val(found).id).ret)
  /\ UNCHANGED propVars
  /\ UNCHANGED machineVars
  /\ UNCHANGED calcVars

ReadCls(cls, attr) ==
  /\ ptypes[cls].status = "ok"
  /\ LET found == class_attr(cls, attr) IN
       /\ Has(found) /\ HasConfigHook(Val(found))
       /\ result' = Outcome("cls", Property_cls(Val(found).id).err,
                            Property_cls(Val(found).id).ret)
  /\ UNCHANGED propVars
  /\ UNCHANGED machineVars
  /\ UNCHANGED calcVars

(* ------------------------------ validators ---------------------------- *)
XValues == {1, 2}      \* the values handed to mock functions
Returns == {0, 1, 2}   \* what a mock function returns; 0 is the falsy one
Tables == [XValues -> Returns]
NoTable == [x \in {} |-> 0]
CmpRange == (0 - MaxCmp)..MaxCmp

PyResult(n) == [kind |-> "int", id |-> n]
IsTrue(r) == r.id /= 0

\* A plain function, Validator(validator_func) around a function, and the
\* Validator objects the operators and CMP build.  A mock function is
\* given by the table of what it returns.
Function(f) == [kind |-> "function", op |-> "func", args |-> <<>>, table |-> f]
Validator(f) == [kind |-> "Validator", op |-> "func", args |-> <<>>, table |-> f]
Derived(op, args) == [kind |-> "Validator", op |-> op, args |-> args, table |-> NoTable]

\* operator.lt, operator.le, operator.gt, operator.ge
binop(op, a, b) ==
  IF op = "lt" THEN a < b
  ELSE IF op = "le" THEN a <= b
  ELSE IF op = "gt" THEN a > b
  ELSE a >= b

\* Mutant: the operands of the comparison change places.
CMP_validator_swapped(op, constant, value) == PyBool(binop(op, constant, value))

\* CMP.__init__'s validator(value): binop(value, constant).
CMP_validator(op, constant, value) == PyBool(binop(op, value, constant))

\* Mutant: both operands are called before the results are combined.
and_validator_eager(left, right) ==
  [ret |-> IF IsTrue(left.ret) THEN right.ret ELSE left.ret, calls |-> right.calls,
   other |-> TRUE]

\* and_validator: `self(value) and other(value)` given what self(value)
\* produced and what other(value) would produce after it.
and_validator(left, right) ==
  IF IsTrue(left.ret) THEN [ret |-> right.ret, calls |-> right.calls, other |-> TRUE]
  ELSE [ret |-> left.ret, calls |-> left.calls, other |-> FALSE]

\* Mutant: both operands are called before the results are combined.
or_validator_eager(left, right) ==
  [ret |-> IF IsTrue(left.ret) THEN left.ret ELSE right.ret, calls |-> right.calls,
   other |-> TRUE]

\* or_validator: `self(value) or other(value)`.
or_validator(left, right) ==
  IF IsTrue(left.ret) THEN [ret |-> left.ret, calls |-> left.calls, other |-> FALSE]
  ELSE [ret |-> right.ret, calls |-> right.calls, other |-> TRUE]

\* not_validator: `not self(value)`.
not_validator(left) == [ret |-> PyBool(~IsTrue(left.ret)), calls |-> left.calls]

\* pool[i](value) with the calls of mock functions appended to the log.
RECURSIVE Validator_call(_, _, _, _)
Validator_call(pool, i, value, log) ==
  LET v == pool[i] IN
  IF v.op = "func"
    THEN [ret |-> PyResult(v.table[value]), calls |-> Append(log, <<i, value>>)]
  ELSE IF v.op \in {"and", "or"}
    THEN LET left == Validator_call(pool, v.args[1], value, log)
             right == Validator_call(pool, v.args[2], value, left.calls)
             r == IF v.op = "and" THEN and_validator(left, right)
                  ELSE or_validator(left, right)
         IN [ret |-> r.ret, calls |-> r.calls]
  ELSE IF v.op = "not"
    THEN not_validator(Validator_call(pool, v.args[1], value, log))
  ELSE [ret |-> CMP_validator(v.op, v.args[1], value), calls |-> log]

\* A plain function, and Validator(validator_func).
NewFunction(f) ==
  /\ Len(validators) < MaxValidators
  /\ validators' = Append(validators, Function(f))
  /\ calls' = <<>>
  /\ result' = Outcome("function", "None", PyNone)
  /\ UNCHANGED <<check_objs>>
  /\ UNCHANGED propVars
  /\ UNCHANGED machineVars

NewValidator(f) ==
  /\ Len(validators) < MaxValidators
  /\ validators' = Append(validators, Validator(f))
  /\ calls' = <<>>
  /\ result' = Outcome("Validator", "None", PyNone)
  /\ UNCHANGED <<check_objs>>
  /\ UNCHANGED propVars
  /\ UNCHANGED machineVars

\* `validators[i] & validators[j]` and `validators[i] | validators[j]`:
\* Validator.__and__ / __or__; a plain function on the left has neither, and
\* Validator has no reflected operator, so Python raises TypeError.
Validator_binop(op, i, j) ==
  /\ Len(validators) < MaxValidators
  /\ i \in DOMAIN validators /\ j \in DOMAIN validators
  /\ IF validators[i].kind = "Validator"
       THEN /\ validators' = Append(validators, Derived(op, <<i, j>>))
            /\ result' = Outcome(op, "None", PyNone)
       ELSE /\ validators' = validators
            /\ result' = Outcome(op, "TypeError", PyNone)
  /\ calls' = <<>>
  /\ UNCHANGED <<check_objs>>
  /\ UNCHANGED propVars
  /\ UNCHANGED machineVars

\* `~validators[i]`: Validator.__invert__.
Validator_invert(i) ==
  /\ Len(validators) < MaxValidators
  /\ i \in DOMAIN validators
  /\ IF validators[i].kind = "Validator"
       THEN /\ validators' = Append(validators, Derived("not", <<i>>))
            /\ result' = Outcome("not", "None", PyNone)
       ELSE /\ validators' = validators
            /\ result' = Outcome("not", "TypeError", PyNone)
  /\ calls' = <<>>
  /\ UNCHANGED <<check_objs>>
  /\ UNCHANGED propVars
  /\ UNCHANGED machineVars

\* `CMP < constant`, `CMP <= constant`, `CMP > constant`, `CMP >= constant`:
\* CMPType's operator methods make CMP(binop, constant).
NewCmp(op, constant) ==
  /\ Len(validators) < MaxValidators
  /\ validators' = Append(validators, Derived(op, <<constant>>))
  /\ calls' = <<>>
  /\ result' = Outcome("CMP", "None", PyNone)
  /\ UNCHANGED <<check_objs>>
  /\ UNCHANGED propVars
  /\ UNCHANGED machineVars

\* `validators[i](value)`.
CallValidator(i, value) ==
  /\ i \in DOMAIN validators
  /\ LET r == Validator_call(validators, i, value, <<>>) IN
       /\ calls' = r.calls
       /\ result' = Outcome("call", "None", r.ret)
  /\ UNCHANGED <<validators, check_objs>>
  /\ UNCHANGED propVars
  /\ UNCHANGED machineVars

(* -------------------------------- checks ------------------------------- *)
CompoundKinds == {"CompoundCheck", "And", "Or", "Add", "Sub"}
FlattenableKinds == {"And", "Or", "Add"}
AccumulatorKinds == {"And", "Or", "Add", "Sub"}
GetVIndexes == {0, 1}   \* the indexes the test's GetV leaves read
RawValues == {1, 2}     \* operands that are not Checks

\* A Check object: its class, the value a K wraps or the index a GetV reads,
\* and the children of a compound, each the position of a Check object.
Node(kind, val, checks) == [kind |-> kind, val |-> val, checks |-> checks]

\* An operand: a Check object, named by its position, or a plain value.
Ref(i) == [kind |-> "Check", id |-> i]
Raw(n) == [kind |-> "int", id |-> n]
IsCheck(c) == c.kind = "Check"

\* The generator of CompoundCheck.__init__: every argument that is not a
\* Check is wrapped in a new K, in the order of the arguments.
RECURSIVE wrap_args(_, _, _)
wrap_args(pool, args, checks) ==
  IF args = <<>> THEN [pool |-> pool, checks |-> checks]
  ELSE IF IsCheck(Head(args))
    THEN wrap_args(pool, Tail(args), Append(checks, Head(args).id))
  ELSE wrap_args(Append(pool, Node("K", Head(args).id, <<>>)), Tail(args),
                 Append(checks, Len(pool) + 1))

\* Mutant: a compound of any number of arguments is accepted.
CompoundCheck_init_unchecked(pool, cls, args) ==
  LET w == wrap_args(pool, args, <<>>) IN
  [err |-> "None", pool |-> Append(w.pool, Node(cls, 0, w.checks))]

\* CompoundCheck.__init__: cls(*args).
CompoundCheck_init(pool, cls, args) ==
  IF Len(args) < 2 THEN [err |-> "TypeError", pool |-> pool]
  ELSE LET w == wrap_args(pool, args, <<>>) IN
       [err |-> "None", pool |-> Append(w.pool, Node(cls, 0, w.checks))]

\* Mutant: a compound operand of any kind is spliced.
make_args_any(pool, cls, val) ==
  IF IsCheck(val) /\ pool[val.id].kind \in CompoundKinds
    THEN [k \in 1..Len(pool[val.id].checks) |-> Ref(pool[val.id].checks[k])]
  ELSE <<val>>

\* What FlattenableCompoundCheck.make adds to args for one operand.
make_args(pool, cls, val) ==
  IF IsCheck(val) /\ pool[val.id].kind = cls
    THEN [k \in 1..Len(pool[val.id].checks) |-> Ref(pool[val.id].checks[k])]
  ELSE <<val>>

\* Mutant: only the left operand is flattened.
FlattenableCompoundCheck_make_left(pool, cls, lval, rval) ==
  make_args(pool, cls, lval) \o <<rval>>

\* FlattenableCompoundCheck.make: the arguments handed to cls(*args).
FlattenableCompoundCheck_make(pool, cls, lval, rval) ==
  make_args(pool, cls, lval) \o make_args(pool, cls, rval)

\* Mutant: subtraction flattens like the other operators.
Check_sub_flat(pool, lval, rval) ==
  FlattenableCompoundCheck_make(pool, "Sub", lval, rval)

\* Check.__sub__ and __rsub__: the arguments of Sub(self, other).
Check_sub(pool, lval, rval) == <<lval, rval>>

\* The operands an expression can name: the Check objects and plain values.
Operands == {Ref(i) : i \in DOMAIN check_objs} \cup {Raw(n) : n \in RawValues}

\* How many objects cls(*args) creates.
Allocated(args) == 1 + Cardinality({k \in DOMAIN args : ~IsCheck(args[k])})

\* GetV(index) of the tests, a Check subclass that overrides check.
NewGetV(index) ==
  /\ Len(check_objs) < MaxChecks
  /\ check_objs' = Append(check_objs, Node("GetV", index, <<>>))
  /\ calls' = <<>>
  /\ result' = Outcome("GetV", "None", PyNone)
  /\ UNCHANGED <<validators>>
  /\ UNCHANGED propVars
  /\ UNCHANGED machineVars

\* Check(), the base class.
NewCheck ==
  /\ Len(check_objs) < MaxChecks
  /\ check_objs' = Append(check_objs, Node("Check", 0, <<>>))
  /\ calls' = <<>>
  /\ result' = Outcome("Check", "None", PyNone)
  /\ UNCHANGED <<validators>>
  /\ UNCHANGED propVars
  /\ UNCHANGED machineVars

\* `lval & rval`, `lval | rval`, `lval + rval`, `lval - rval` where at least
\* one operand is a Check: Check.__and__ .. __rsub__.
Check_binop(cls, lval, rval) ==
  /\ cls \in AccumulatorKinds
  /\ lval \in Operands /\ rval \in Operands
  /\ IsCheck(lval) \/ IsCheck(rval)
  /\ LET args == IF cls = "Sub" THEN Check_sub(check_objs, lval, rval)
                 ELSE FlattenableCompoundCheck_make(check_objs, cls, lval, rval)
         r == CompoundCheck_init(check_objs, cls, args)
     IN /\ Len(check_objs) + Allocated(args) <= MaxChecks
        /\ check_objs' = r.pool
        /\ result' = Outcome(cls, r.err, PyNone)
  /\ calls' = <<>>
  /\ UNCHANGED <<validators>>
  /\ UNCHANGED propVars
  /\ UNCHANGED machineVars

\* `cls.make(lval, rval)`, the class method called directly.
Make(cls, lval, rval) ==
  /\ cls \in FlattenableKinds
  /\ lval \in Operands /\ rval \in Operands
  /\ LET args == FlattenableCompoundCheck_make(check_objs, cls, lval, rval)
         r == CompoundCheck_init(check_objs, cls, args)
     IN /\ Len(check_objs) + Allocated(args) <= MaxChecks
        /\ check_objs' = r.pool
        /\ result' = Outcome("make", r.err, PyNone)
  /\ calls' = <<>>
  /\ UNCHANGED <<validators>>
  /\ UNCHANGED propVars
  /\ UNCHANGED machineVars

\* cls(*args), the constructor called directly.
NewCompound(cls, args) ==
  /\ cls \in CompoundKinds
  /\ \A k \in DOMAIN args : args[k] \in Operands
  /\ Len(check_objs) + Allocated(args) <= MaxChecks
  /\ LET r == CompoundCheck_init(check_objs, cls, args) IN
       /\ check_objs' = r.pool
       /\ result' = Outcome(cls, r.err, PyNone)
  /\ calls' = <<>>
  /\ UNCHANGED <<validators>>
  /\ UNCHANGED propVars
  /\ UNCHANGED machineVars

\* The instances handed to check: lists that every GetV index can read.
Instances == {<<1, 3>>, <<6, 3>>}

\* operator.and_ and operator.or_ on Python ints: bitwise on the two's
\* complement, computed here on BitWidth bits.
RECURSIVE bits(_, _, _)
bits(or, u, v) ==
  IF u = 0 /\ v = 0 THEN 0
  ELSE LET a == u % 2
           b == v % 2
           bit == IF or THEN (IF a + b > 0 THEN 1 ELSE 0) ELSE a * b
       IN bit + 2 * bits(or, u \div 2, v \div 2)

bitwise(or, x, y) ==
  LET u == bits(or, x % (2 ^ BitWidth), y % (2 ^ BitWidth)) IN
  IF u >= 2 ^ (BitWidth - 1) THEN u - 2 ^ BitWidth ELSE u

\* Mutant: Add accumulates with operator.sub.
OP_sub(cls, x, y) ==
  IF cls = "And" THEN bitwise(FALSE, x, y)
  ELSE IF cls = "Or" THEN bitwise(TRUE, x, y)
  ELSE x - y

\* _OP of And, Or, Add and Sub.
OP(cls, x, y) ==
  IF cls = "And" THEN bitwise(FALSE, x, y)
  ELSE IF cls = "Or" THEN bitwise(TRUE, x, y)
  ELSE IF cls = "Add" THEN x + y
  ELSE x - y

Evaluated(err, ret, log) == [err |-> err, ret |-> ret, calls |-> log]

\* check_objs[i].check(instance), as AccumulatorCheck.check calls it: with
\* one argument.  The log takes every check method that is entered.  K.check
\* takes (cls, instance), so the call raises TypeError before it is entered;
\* Check.check, which CompoundCheck inherits, raises NotImplementedError.
RECURSIVE Check_check(_, _, _, _)
RECURSIVE accumulate(_, _, _, _, _)
Check_check(pool, i, instance, log) ==
  LET c == pool[i] IN
  IF c.kind = "K" THEN Evaluated("TypeError", 0, log)
  ELSE IF c.kind = "GetV"
    THEN IF c.val + 1 \in DOMAIN instance
           THEN Evaluated("None", instance[c.val + 1], Append(log, i))
         ELSE Evaluated("IndexError", 0, Append(log, i))
  ELSE IF c.kind \in AccumulatorKinds
    THEN accumulate(pool, c.kind, Tail(c.checks),
                    Check_check(pool, c.checks[1], instance, Append(log, i)), instance)
  ELSE Evaluated("NotImplementedError", 0, Append(log, i))

\* The loop of AccumulatorCheck.check: result = op(result, next.check(instance)).
accumulate(pool, cls, rest, acc, instance) ==
  IF acc.err /= "None" \/ rest = <<>> THEN acc
  ELSE LET next == Check_check(pool, Head(rest), instance, acc.calls) IN
       IF next.err /= "None" THEN next
       ELSE accumulate(pool, cls, Tail(rest),
                       Evaluated("None", OP(cls, acc.ret, next.ret), next.calls), instance)

\* `check_objs[i].check(instance)`.
Evaluate(i, instance) ==
  /\ i \in DOMAIN check_objs
  /\ LET r == Check_check(check_objs, i, instance, <<>>) IN
       /\ calls' = r.calls
       /\ result' = Outcome("check", r.err,
                            IF r.err = "None" THEN PyResult(r.ret) ELSE PyNone)
  /\ UNCHANGED <<validators, check_objs>>
  /\ UNCHANGED propVars
  /\ UNCHANGED machineVars

\* `lval op rval` for two Check operands of a flattenable operator: the pool
\* with the node that Check.__and__, __or__ or __add__ returns at its end.
Check_flat_binop(pool, cls, lval, rval) ==
  CompoundCheck_init(pool, cls,
                     FlattenableCompoundCheck_make(pool, cls, Ref(lval), Ref(rval))).pool

\* `(a op b) op c` and `a op (b op c)`: the inner operator runs first and
\* its node is the operand of the outer one.
Associated(pool, cls, a, b, c, left) ==
  IF left
    THEN LET inner == Check_flat_binop(pool, cls, a, b)
         IN Check_flat_binop(inner, cls, Len(inner), c)
    ELSE LET inner == Check_flat_binop(pool, cls, b, c)
         IN Check_flat_binop(inner, cls, a, Len(inner))

\* The instances of the accumulator test: lists of one result for each of
\* the leaves a, b and c, the booleans as the integers 0 and 1 they are
\* equal to; FlatIndexes are the indexes such a list has.
FlatInstances == {<<1, 3, 6>>, <<0, 1, 1>>, <<1, 0, 1>>, <<5, -2, 3>>}
FlatIndexes == {k - 1 : k \in DOMAIN (CHOOSE instance \in FlatInstances : TRUE)}

\* `((a op b) op c).check(instance)` and `(a op (b op c)).check(instance)`
\* for GetV leaves a, b, c, as test_accumulate builds and checks its sum.
CheckAssociated(cls, a, b, c, left, instance) ==
  /\ cls \in FlattenableKinds \cap AccumulatorKinds
  /\ {a, b, c} \subseteq DOMAIN check_objs
  /\ \A i \in {a, b, c} : check_objs[i].kind = "GetV"
  /\ Len(check_objs) <= Cardinality(FlatIndexes)
  /\ LET pool == Associated(check_objs, cls, a, b, c, left)
         r == Check_check(pool, Len(pool), instance, <<>>)
     IN /\ check_objs' = pool
        /\ calls' = r.calls
        /\ result' = Outcome("check", r.err,
                             IF r.err = "None" THEN PyResult(r.ret) ELSE PyNone)
  /\ UNCHANGED <<validators>>
  /\ UNCHANGED propVars
  /\ UNCHANGED machineVars

(* --------------------------- specifications ---------------------------- *)
Init ==
  /\ next_source_order = 0
  /\ source_order = EmptyMap
  /\ state_name = [s \in StateIds |-> Absent]
  /\ state_machine = [s \in StateIds |-> Absent]
  /\ transitions = [t \in TransIds |-> Unbuilt]
  /\ mtypes = [c \in MachineTypes |-> NoMachineType]
  /\ machines = [i \in InstIds \cup TwinIds |-> NoMachine]
  /\ accessors = [a \in AllAccIds |-> Absent]
  /\ ptypes = [c \in PropTypes \cup SlotTypes \cup PlainTypes |->
                IF c = "HasProps" THEN [status |-> "ok", parent |-> Absent, body |-> <<>>]
                ELSE NoPropType]
  /\ props_of = [c \in PropTypes \cup SlotTypes |->
                  IF c = "HasProps" THEN Some(c) ELSE Absent]
  /\ prop_dicts = [c \in PropTypes \cup SlotTypes |-> EmptyMap]
  /\ objects = [o \in ObjIds \cup TwinIds |-> NoObject]
  /\ validators = <<>>
  /\ check_objs = Absent
  /\ calls = <<>>
  /\ result = NoResult

AssignableValues == {PyState(s) : s \in Created} \cup {PyNone}

\* Declaring machine types and creating instances of them.
NextDeclare ==
  \/ NewState
  \/ \E s \in StateIds, n \in AttrNames : AssignStateName(s, n)
  \/ \E s \in StateIds, c \in MachineTypes : AssignStateMachine(s, c)
  \/ \E c \in MachineTypes, body \in ClassBodies : DeclareMachine(c, body)
  \/ \E i \in InstIds, c \in MachineTypes : NewMachine(i, c)

SpecDeclare == Init /\ [][NextDeclare]_vars

\* Running machines: transitions built, types declared, states assigned
\* and transitioners invoked.
NextMachine ==
  \/ NewState
  \/ \E t \in TransIds, sm \in StateMaps : NewTransition(t, sm)
  \/ \E c \in RunTypes, body \in ClassBodies : DeclareMachine(c, body)
  \/ \E i \in InstIds, c \in RunTypes : NewMachine(i, c)
  \/ \E i \in InstIds, v \in AssignableValues : AssignState(i, v)
  \/ \E i \in InstIds, n \in AttrNames : CallTransitioner(i, n)

SpecMachine == Init /\ [][NextMachine]_vars

DirectOwners == {PyType(c) : c \in PlainTypes} \cup {NotAType}

\* Registration by class statements: classes derived from HasProps.
NextProps ==
  \E c \in PropTypes, p \in PropTypes, body \in PropBodies :
    DeclareHasProps(c, p, body)

SpecProps == Init /\ [][NextProps]_vars

\* Registration by direct calls on a class without hooks, next to one
\* propertied class.
NextConfig ==
  \/ \E p \in PropTypes, body \in PropBodies : DeclareHasProps("T1", p, body)
  \/ \E o \in DirectOwners, n \in ArgNames, v \in PropValues : ConfigPropName(o, n, v)
  \/ \E o \in DirectOwners, attrs \in ArgDicts : ConfigProps(o, attrs)

SpecConfig == Init /\ [][NextConfig]_vars

\* Property access: classes are declared, instantiated and assigned to.
NextAccess ==
  \/ \E c \in PropTypes, p \in PropTypes, body \in PropBodies :
       DeclareHasProps(c, p, body)
  \/ \E o \in ObjIds, c \in PropTypes : NewObject(o, c)
  \/ \E o \in ObjIds, n \in AttrNames, v \in StoreValues : SetAttr(o, n, v)
  \/ \E o \in ObjIds, n \in AttrNames : DelAttr(o, n)
  \/ \E o \in ObjIds, n \in AttrNames : GetAttr(o, n)

SpecAccess == Init /\ [][NextAccess]_vars

\* A plain class holding property objects of every kind, configured later
\* (or never) by config_props, and one instance of it.
NextPlain ==
  \/ \E c \in PlainTypes, body \in PlainBodies : DeclarePlain(c, body)
  \/ \E c \in PlainTypes : ConfigClass(c)
  \/ \E o \in ObjIds, c \in PlainTypes : NewObject(o, c)
  \/ \E c \in PlainTypes, n \in AttrNames : TypeGet(c, n)
  \/ \E c \in PlainTypes, n \in AttrNames : ReadName(c, n)
  \/ \E c \in PlainTypes, n \in AttrNames : ReadCls(c, n)
  \/ \E o \in ObjIds, n \in AttrNames : GetAttr(o, n)
  \/ \E o \in ObjIds, n \in AttrNames, v \in TypedValues : SetAttr(o, n, v)
  \/ \E o \in ObjIds, n \in AttrNames : DelAttr(o, n)

SpecPlain == Init /\ [][NextPlain]_vars

ValidatorIds == 1..MaxValidators

\* Validators around mock functions, combined with &, | and ~ and called.
NextValidator ==
  \/ \E f \in Tables : NewFunction(f)
  \/ \E f \in Tables : NewValidator(f)
  \/ \E op \in {"and", "or"}, i \in ValidatorIds, j \in ValidatorIds :
       Validator_binop(op, i, j)
  \/ \E i \in ValidatorIds : Validator_invert(i)
  \/ \E i \in ValidatorIds, x \in XValues : CallValidator(i, x)

SpecValidator == Init /\ [][NextValidator]_vars

\* CMP validators made with the four comparison operators and called.
NextCmp ==
  \/ \E op \in {"lt", "le", "gt", "ge"}, c \in CmpRange : NewCmp(op, c)
  \/ \E i \in ValidatorIds, x \in CmpRange : CallValidator(i, x)

SpecCmp == Init /\ [][NextCmp]_vars

\* The argument lists of up to MaxArgs operands.
ArgLists == UNION {[1..n -> Operands] : n \in 0..MaxArgs}

\* The classes whose constructor the exploration calls directly: the base
\* class and one subclass; no subclass overrides __init__.
ConstructedKinds == {"CompoundCheck", "Sub"}

\* Compound checks made by calling the constructors.
NextCompound ==
  \/ NewCheck
  \/ /\ Len(check_objs) < MaxChecks
     /\ \E cls \in ConstructedKinds, args \in ArgLists : NewCompound(cls, args)

SpecCompound == Init /\ [][NextCompound]_vars

\* Checks combined with the operators.
NextCheck ==
  \/ \E index \in GetVIndexes : NewGetV(index)
  \/ NewCheck
  \/ /\ Len(check_objs) < MaxChecks
     /\ \E cls \in AccumulatorKinds, lval \in Operands, rval \in Operands :
          Check_binop(cls, lval, rval)

SpecCheck == Init /\ [][NextCheck]_vars

CheckIds == 1..MaxChecks

\* Checks combined with the operators and evaluated on an instance.
NextEvaluate ==
  \/ \E index \in GetVIndexes : NewGetV(index)
  \/ /\ Len(check_objs) < MaxChecks
     /\ \E cls \in AccumulatorKinds, lval \in Operands, rval \in Operands :
          Check_binop(cls, lval, rval)
  \/ \E i \in CheckIds, instance \in Instances : Evaluate(i, instance)

SpecEvaluate == Init /\ [][NextEvaluate]_vars

SlotAttrs == [name : SlotNames, value : {PyAcc(a) : a \in AccIds}]
SlotBodies ==
  UNION {{b \in [1..n -> SlotAttrs] :
            \A i, j \in 1..n : i /= j => b[i].name /= b[j].name} : n \in 1..MaxAttrs}

\* Propertied types whose names and field names contain underscores, one
\* derived from the other, and an instance whose properties are used.
NextSlots ==
  \/ \E c \in SlotTypes, p \in SlotTypes \cup {"HasProps"}, body \in SlotBodies :
       DeclareHasProps(c, p, body)
  \/ \E o \in ObjIds, c \in SlotTypes : NewObject(o, c)
  \/ \E o \in ObjIds, n \in SlotNames, v \in StoreValues : SetAttr(o, n, v)
  \/ \E o \in ObjIds, n \in SlotNames : GetAttr(o, n)
  \/ \E o \in ObjIds, n \in SlotNames : DelAttr(o, n)

SpecSlots == Init /\ [][NextSlots]_vars

\* Instances of SourceOrdered, of a plain subclass and of State created in
\* any order.
NextOrdered ==
  \/ \E i \in BaseOrderedIds : NewSourceOrdered(i)
  \/ \E i \in SubOrderedIds : NewSourceOrdered(i)
  \/ NewState

SpecOrdered == Init /\ [][NextOrdered]_vars

\* Flattenable nodes made by calling make on leaves, nodes and plain values.
NextMake ==
  \/ \E index \in GetVIndexes : NewGetV(index)
  \/ /\ Len(check_objs) < MaxChecks
     /\ \E cls \in FlattenableKinds, lval \in Operands, rval \in Operands :
          Make(cls, lval, rval)

SpecMake == Init /\ [][NextMake]_vars

\* Class bodies that also carry the line `INIT = <a State>`; the class dict
\* may yield the attribute at any position among the others.
InsertAt(body, p, attr) ==
  [k \in 1..(Len(body) + 1) |->
     IF k <= p THEN body[k] ELSE IF k = p + 1 THEN attr ELSE body[k - 1]]

OverrideBodies ==
  UNION {{InsertAt(body, p, [name |-> "INIT", value |-> PyState(s)]) :
            p \in 0..Len(body), s \in StateIds} : body \in ClassBodies}

\* Machine types declared with an INIT line in the body, and their instances.
NextOverride ==
  \/ NewState
  \/ \E c \in MachineTypes, body \in OverrideBodies : DeclareMachine(c, body)
  \/ \E i \in InstIds, c \in MachineTypes : NewMachine(i, c)

SpecOverride == Init /\ [][NextOverride]_vars

\* Machines whose transitioners are queried between state changes.
NextQuery ==
  \/ NewState
  \/ \E t \in TransIds, sm \in StateMaps : NewTransition(t, sm)
  \/ \E c \in RunTypes, body \in ClassBodies : DeclareMachine(c, body)
  \/ \E i \in InstIds, c \in RunTypes : NewMachine(i, c)
  \/ \E i \in InstIds, v \in AssignableValues : AssignState(i, v)
  \/ \E i \in InstIds, n \in AttrNames : ReadNextState(i, n)

SpecQuery == Init /\ [][NextQuery]_vars

\* Expressions of one flattenable operator over three leaves, built in
\* either association and checked.  The leaves are GetV(0), GetV(1), ...,
\* as in test_accumulate; an expression may name a leaf more than once.
NextFlatten ==
  \/ /\ Len(check_objs) < Cardinality(FlatIndexes)
     /\ \E index \in FlatIndexes \cap {Len(check_objs)} : NewGetV(index)
  \/ /\ Len(check_objs) <= Cardinality(FlatIndexes)
     /\ \E cls \in FlattenableKinds \cap AccumulatorKinds,
           a \in DOMAIN check_objs, b \in DOMAIN check_objs, c \in DOMAIN check_objs,
           left \in BOOLEAN, instance \in FlatInstances :
          CheckAssociated(cls, a, b, c, left, instance)

SpecFlatten == Init /\ [][NextFlatten]_vars

\* The class body of the twins' type: one field, a property object.
TwinBodies == {<<[name |-> "a", value |-> PyAcc(a)]>> : a \in AccIds}

\* Two instances of one propertied type and two of one machine type.
NextTwins ==
  \/ \E body \in TwinBodies : DeclareHasProps("T1", "HasProps", body)
  \/ \E o \in TwinIds : NewObject(o, "T1")
  \/ \E o \in TwinIds, v \in StoreValues : SetAttr(o, "a", v)
  \/ \E o \in TwinIds : DelAttr(o, "a")
  \/ NewState
  \/ \E t \in TransIds, sm \in StateMaps : NewTransition(t, sm)
  \/ \E c \in RunTypes, body \in ClassBodies : DeclareMachine(c, body)
  \/ \E i \in TwinIds, c \in RunTypes : NewMachine(i, c)
  \/ \E i \in TwinIds, n \in AttrNames : CallTransitioner(i, n)

SpecTwins == Init /\ [][NextTwins]_vars

(* ------------------------------- claims -------------------------------- *)
\* The States a machine type declares, and the transition a name stands for.
DeclaredStates(cls) ==
  {mtypes[cls].state_by_name[n] : n \in DOMAIN mtypes[cls].state_by_name}
ClassOf(i) == Val(machines[i].cls)
\* The machine's current state is a source of transition t.
IsSource(i, t) ==
  /\ Has(machines[i].state)
  /\ Has(transitions[t].state_map)
  /\ Val(machines[i].state).id \in DOMAIN Val(transitions[t].state_map)
Destination(i, t) == PyState(Val(transitions[t].state_map)[Val(machines[i].state).id])

\* C1: invoking a transitioner from a source state of its transition stores
\* the mapped destination as the machine's current state and returns it.
C1_TransitionFromSource ==
  [][\A i \in InstIds, n \in AttrNames :
       (/\ CallTransitioner(i, n)
        /\ IsSource(i, mtypes[ClassOf(i)].transition_by_name[n]))
       => LET t == mtypes[ClassOf(i)].transition_by_name[n] IN
            /\ result'.err = "None"
            /\ result'.ret = Destination(i, t)
            /\ machines'[i].state = Some(Destination(i, t))]_vars

C1_Witness ==
  /\ result.op = "call" /\ result.err = "None"
  /\ \E i \in Alive : machines[i].state = Some(result.ret)

\* C2: invoking a transitioner from a state that is no source of its
\* transition fails with the illegal-transition error and leaves the current
\* state as it was.
C2_IllegalTransitionError ==
  [][\A i \in InstIds, n \in AttrNames :
       (/\ CallTransitioner(i, n)
        /\ Has(machines[i].state)
        /\ ~IsSource(i, mtypes[ClassOf(i)].transition_by_name[n]))
       => /\ result'.err = "IllegalStateTransition"
          /\ machines'[i].state = machines[i].state]_vars

\* Some State is a source under two different entries of the state_map.
SourceInTwoEntries(state_map) ==
  \E j, k \in DOMAIN state_map :
    /\ j /= k
    /\ \E x \in DOMAIN state_map[j].key.items, y \in DOMAIN state_map[k].key.items :
         state_map[j].key.items[x] = state_map[k].key.items[y]

\* C3: constructing a Transition whose state_map names the same source State
\* under more than one entry fails, and no Transition object results.
C3_DuplicateSourceFails ==
  [][\A t \in TransIds, sm \in StateMaps :
       (NewTransition(t, sm) /\ SourceInTwoEntries(sm))
       => result'.err /= "None" /\ ~transitions'[t].built]_vars

\* C4: the current state of a machine instance is always a State that the
\* instance's own machine type declares.
C4_StateBelongsToMachine ==
  \A i \in Alive :
    Has(machines[i].state) =>
      /\ Val(machines[i].state).kind = "State"
      /\ Val(machines[i].state).id \in DeclaredStates(ClassOf(i))

\* C5: a new instance of a machine type that declares States starts in the
\* declared State with the lowest source_order, whatever the States are named.
C5_InitialStateIsEarliest ==
  [][\A i \in InstIds, c \in MachineTypes :
       (NewMachine(i, c) /\ DeclaredStates(c) /= {})
       => \E s \in DeclaredStates(c) :
            /\ \A o \in DeclaredStates(c) : source_order[s] <= source_order[o]
            /\ machines'[i].state = Some(PyState(s))
            /\ result'.err = "None"]_vars

\* An instance that started in the State named b of a type that also
\* declares a State named a, created later.
C5_Witness ==
  /\ result.op = "Machine" /\ result.err = "None"
  /\ \E i \in Alive :
       /\ Has(machines[i].state)
       /\ state_name[Val(machines[i].state).id] = Some("b")
       /\ "a" \in DOMAIN mtypes[ClassOf(i)].state_by_name

Bound(s) == Has(state_name[s]) /\ Has(state_machine[s])
\* The States a class body declares.
BodyStates(body) ==
  {body[k].value.id : k \in {j \in DOMAIN body : body[j].value.kind = "State"}}

\* C6: a State is stamped with its field name and machine type when the type
\* declaring it is finalized; a stored name or machine never changes
\* afterwards, and a class body that declares a State which already has a
\* name fails to finalize instead of restamping it.
C6_StateBoundOnce ==
  [][/\ \A s \in StateIds :
          /\ Has(state_name[s]) => state_name'[s] = state_name[s]
          /\ Has(state_machine[s]) => state_machine'[s] = state_machine[s]
     /\ \A c \in MachineTypes, body \in ClassBodies :
          DeclareMachine(c, body) =>
            /\ (\E s \in BodyStates(body) : Has(state_name[s]))
                 => /\ result'.err = "AttributeError"
                    /\ mtypes'[c].status = "failed"
            /\ result'.err = "None"
                 => \A k \in DOMAIN body :
                      body[k].value.kind = "State" =>
                        /\ ~Has(state_name[body[k].value.id])
                        /\ state_name'[body[k].value.id] = Some(body[k].name)
                        /\ state_machine'[body[k].value.id] = Some(c)]_vars

\* A bound State survived a class statement that tried to declare it again.
C6_Witness ==
  /\ result.op = "class" /\ result.err = "AttributeError"
  /\ \E s \in StateIds, c \in MachineTypes :
       /\ Bound(s) /\ state_machine[s] = Some(c) /\ mtypes[c].status = "ok"
       /\ \E d \in MachineTypes : mtypes[d].status = "failed"

\* C7: a bind attempt on an accessor that is already bound fails with the
\* 'already configured' configuration error, and the accessor keeps the name
\* and owning type of its first binding.
C7_SecondBindFails ==
  [][\A owner \in DirectOwners, n \in ArgNames, v \in PropValues :
       ( /\ ConfigPropName(owner, n, v)
         /\ config_prop_name_check(owner, n) = "None"
         /\ HasConfigHook(v)
         /\ Has(accessors[v.id]) )
       => /\ result'.err \in {"IllegalStateError", "TypeError"}
          /\ accessors'[v.id] = accessors[v.id]]_vars

BadArgs(owner, n) == ~owner.istype \/ ~n.isstr \/ n.text = ""
ArgError(owner, n) == IF ~owner.istype \/ ~n.isstr THEN "TypeError" ELSE "ValueError"
\* item k is reached without an earlier item raising or binding item k's value
Reached(owner, attrs, k) ==
  \A j \in 1..(k - 1) :
    /\ ~BadArgs(owner, attrs[j].name)
    /\ HasConfigHook(attrs[j].value) =>
         /\ ~Has(accessors[attrs[j].value.id])
         /\ attrs[j].value /= attrs[k].value
         /\ \A i \in 1..(j - 1) : attrs[i].value /= attrs[j].value

\* C8: config_prop_name with an owner that is not a type or a name that is
\* not a string raises TypeError, with an empty name ValueError, and the value
\* is left as it was even when it has a bind hook; the same through
\* config_props on a type without overrides, for the first such item reached.
C8_ArgumentsCheckedFirst ==
  [][ /\ \A owner \in DirectOwners, n \in ArgNames, v \in PropValues :
           (BadArgs(owner, n) /\ ConfigPropName(owner, n, v))
           => /\ result'.err = ArgError(owner, n)
              /\ accessors' = accessors
      /\ \A owner \in DirectOwners, attrs \in ArgDicts :
           \A k \in DOMAIN attrs :
             ( /\ BadArgs(owner, attrs[k].name)
               /\ Reached(owner, attrs, k)
               /\ ConfigProps(owner, attrs) )
             => /\ result'.err = ArgError(owner, attrs[k].name)
                /\ HasConfigHook(attrs[k].value) =>
                     accessors'[attrs[k].value.id] = accessors[attrs[k].value.id]
    ]_vars

\* config_props stopped with ValueError after binding one accessor to C and
\* leaving another unbound.
C8_Witness ==
  /\ result.op = "config_props"
  /\ result.err = "ValueError"
  /\ \E a, b \in AccIds :
       /\ Has(accessors[a]) /\ Val(accessors[a]).cls = "C"
       /\ ~Has(accessors[b])

Registry(cls) == prop_dicts[Val(props_of[cls])]
OwnFields(cls) == {k \in DOMAIN ptypes[cls].body : HasConfigHook(ptypes[cls].body[k].value)}
DeclaredNames(cls) == {ptypes[cls].body[k].name : k \in DOMAIN ptypes[cls].body}

\* C9: the registry of a finalized HasProps type holds exactly its own
\* bindable fields, mapped to its own accessors, plus the entries of its
\* parent's registry for the names it does not declare again; this stays so
\* while further subtypes are finalized.
C9_RegistryOwnPlusInherited ==
  /\ Registry("HasProps") = EmptyMap
  /\ \A cls \in PropTypes :
       (ptypes[cls].status = "ok" /\ Has(ptypes[cls].parent)) =>
         LET body == ptypes[cls].body
             parent == Registry(Val(ptypes[cls].parent))
             inherited == DOMAIN parent \ DeclaredNames(cls)
         IN /\ DOMAIN Registry(cls) = {body[k].name : k \in OwnFields(cls)} \cup inherited
            /\ \A k \in OwnFields(cls) : Registry(cls)[body[k].name] = body[k].value.id
            /\ \A n \in inherited : Registry(cls)[n] = parent[n]

BoundReadOnly(a) == AccKind(a) = "ReadOnlyProperty" /\ Has(accessors[a])
Slot(a) == Val(accessors[a]).attribute_name

BoundProperty(a) == AccKind(a) = "Property" /\ Has(accessors[a])
\* The name finds property object a on the class of instance o.
Finds(o, name, a) ==
  /\ Has(objects[o].cls)
  /\ class_attr(Val(objects[o].cls), name) = Some(PyAcc(a))
Holds(o, a) == Slot(a) \in DOMAIN objects[o].attrs

\* C11: through a bound base Property, get returns the value stored by the
\* last set when one is held and raises AttributeError when none is; set
\* always stores its value; delete removes a held value and raises
\* AttributeError when none is held; and the held value changes through no
\* other step than a successful set or delete of that property.
C11_PropertyGetSetDelete ==
  [][\A o \in ObjIds, a \in AccIds :
       BoundProperty(a) =>
         /\ \A n \in AttrNames :
              /\ (Finds(o, n, a) /\ GetAttr(o, n)) =>
                   IF Holds(o, a)
                     THEN /\ result'.err = "None"
                          /\ result'.ret = PyValue(objects[o].attrs[Slot(a)])
                     ELSE result'.err = "AttributeError"
              /\ \A v \in StoreValues :
                   (Finds(o, n, a) /\ SetAttr(o, n, v)) =>
                     /\ result'.err = "None"
                     /\ Slot(a) \in DOMAIN objects'[o].attrs
                     /\ objects'[o].attrs[Slot(a)] = v
              /\ (Finds(o, n, a) /\ DelAttr(o, n)) =>
                   IF Holds(o, a)
                     THEN /\ result'.err = "None"
                          /\ Slot(a) \notin DOMAIN objects'[o].attrs
                     ELSE /\ result'.err = "AttributeError"
                          /\ objects'[o] = objects[o]
         /\ ( Has(objects[o].cls) /\
              \/ Holds(o, a) /= (Slot(a) \in DOMAIN objects'[o].attrs)
              \/ /\ Holds(o, a)
                 /\ objects'[o].attrs[Slot(a)] /= objects[o].attrs[Slot(a)] )
            => /\ result'.op \in {"set", "del"}
               /\ result'.err = "None"
               /\ \E n \in AttrNames : Finds(o, n, a)
    ]_vars

\* A get through a bound base Property returned the value the instance holds.
C11_Witness ==
  /\ result.op = "get"
  /\ result.err = "None"
  /\ \E o \in ObjIds, a \in AccIds :
       /\ BoundProperty(a)
       /\ Holds(o, a)
       /\ result.ret = PyValue(objects[o].attrs[Slot(a)])
       /\ objects[o].attrs[Slot(a)] = "y"

\* The name finds property object a on class cls, and a is not configured.
FindsUnbound(cls, name, a) ==
  /\ ptypes[cls].status = "ok"
  /\ class_attr(cls, name) = Some(PyAcc(a))
  /\ ~Has(accessors[a])
\* The validator of property object a raises when called with v.
ValidatorRaises(a, v) ==
  \/ AccKind(a) = "StrictProperty" /\ TypeOf(v) /= property_type(a)
  \/ AccKind(a) = "ValidatedProperty" /\ call_validator(validator_of(a), v) = "TypeError"

FindsBound(o, name, a) == Finds(o, name, a) /\ Has(accessors[a])

\* C13: a set through a configured ValidatedProperty with predicate p stores
\* v when p(v) is true, raises ValueError and leaves the instance as it was
\* when p(v) is false, and stores nothing when p(v) itself raises.
C13_ValidatedSet ==
  [][\A o \in ObjIds, n \in AttrNames, a \in CheckedIds, v \in TypedValues :
       ( /\ AccKind(a) = "ValidatedProperty"
         /\ FindsBound(o, n, a)
         /\ SetAttr(o, n, v) )
       => LET validated == call_validator(validator_of(a), v) IN
          IF validated = "True"
            THEN /\ result'.err = "None"
                 /\ Slot(a) \in DOMAIN objects'[o].attrs
                 /\ objects'[o].attrs[Slot(a)] = v
          ELSE IF validated = "False"
            THEN /\ result'.err = "ValueError"
                 /\ objects' = objects
          ELSE /\ result'.err = validated
               /\ objects' = objects
    ]_vars

\* A set was refused with ValueError on an instance that holds a value for a
\* configured ValidatedProperty.
C13_Witness ==
  /\ result.op = "set"
  /\ result.err = "ValueError"
  /\ \E o \in ObjIds, a \in CheckedIds :
       /\ AccKind(a) = "ValidatedProperty"
       /\ Has(accessors[a])
       /\ Holds(o, a)
       /\ objects[o].attrs[Slot(a)] = "1"

Operand(k, x) == Validator_call(validators, k, x, <<>>)

\* C15: (v1 & v2)(x) calls v1(x) first and v2(x) only if v1(x) is truthy,
\* (v1 | v2)(x) calls v1(x) first and v2(x) only if v1(x) is falsy, the
\* result is truthy exactly when the logical and / or of the two results is
\* true, and (~v1)(x) is the negation of v1(x); v1 is a Validator and v2 a
\* Validator or a plain function.
C15_ValidatorOperators ==
  [][\A i \in ValidatorIds, x \in XValues :
       (i \in DOMAIN validators /\ CallValidator(i, x)) =>
         LET v == validators[i]
             v1 == Operand(v.args[1], x)
             v2 == Operand(v.args[2], x)
         IN /\ v.op = "and" =>
                 /\ calls' = IF IsTrue(v1.ret) THEN v1.calls \o v2.calls ELSE v1.calls
                 /\ IsTrue(result'.ret) <=> (IsTrue(v1.ret) /\ IsTrue(v2.ret))
            /\ v.op = "or" =>
                 /\ calls' = IF IsTrue(v1.ret) THEN v1.calls ELSE v1.calls \o v2.calls
                 /\ IsTrue(result'.ret) <=> (IsTrue(v1.ret) \/ IsTrue(v2.ret))
            /\ v.op = "not" =>
                 /\ calls' = v1.calls
                 /\ result'.ret = PyBool(~IsTrue(v1.ret))
    ]_vars

\* A Validator & plain function was called with a value the Validator
\* rejects: only the Validator's function ran.
C15_Witness ==
  /\ Len(validators) = 3
  /\ validators[1].kind = "Validator" /\ validators[1].op = "func"
  /\ validators[2].kind = "function"
  /\ validators[3] = Derived("and", <<1, 2>>)
  /\ validators[1].table[1] = 0 /\ validators[2].table[1] = 2
  /\ result.op = "call"
  /\ calls = << <<1, 1>> >>
  /\ ~IsTrue(result.ret)

\* C16: for every constant c and candidate v in the range, (CMP < c)(v) is
\* true iff v < c, (CMP <= c)(v) iff v <= c, (CMP > c)(v) iff v > c and
\* (CMP >= c)(v) iff v >= c; at v = c the strict forms are false and the
\* non-strict forms true.
C16_CmpBoundaries ==
  [][\A i \in ValidatorIds, v \in CmpRange :
       (i \in DOMAIN validators /\ CallValidator(i, v)) =>
         LET c == validators[i].args[1]
             op == validators[i].op
             true == result'.ret = PyBool(TRUE)
             false == result'.ret = PyBool(FALSE)
         IN /\ true \/ false
            /\ op = "lt" => (true <=> v < c)
            /\ op = "le" => (true <=> v <= c)
            /\ op = "gt" => (true <=> v > c)
            /\ op = "ge" => (true <=> v >= c)
            /\ v = c => (true <=> op \in {"le", "ge"})
    ]_vars

\* CMP >= MaxCmp accepted a candidate of the range: the candidate is the
\* constant itself, the boundary.
C16_Witness ==
  /\ Len(validators) = 1
  /\ validators[1] = Derived("ge", <<MaxCmp>>)
  /\ result = Outcome("call", "None", PyBool(TRUE))

\* The Check object at position i of the pool is a leaf, or a compound
\* with at least 2 children, each a Check object made before it.
WellFormed(pool, i) ==
  pool[i].kind \in CompoundKinds =>
    /\ Len(pool[i].checks) >= 2
    /\ \A k \in DOMAIN pool[i].checks : pool[i].checks[k] \in 1..(i - 1)

\* C17: every compound Check that exists has at least 2 children and every
\* child is a Check; constructing one with 0 or 1 operands raises TypeError,
\* an operand that is a Check becomes a child unchanged and in position, and
\* an operand that is not becomes a new K wrapping that operand.
C17_CompoundChildren ==
  [][/\ \A i \in DOMAIN check_objs' : WellFormed(check_objs', i)
     /\ \A cls \in ConstructedKinds, args \in ArgLists :
          (result'.op = cls /\ NewCompound(cls, args)) =>
            IF Len(args) < 2
              THEN result'.err = "TypeError" /\ check_objs' = check_objs
            ELSE LET old == Len(check_objs)
                     node == check_objs'[Len(check_objs')]
                 IN /\ result'.err = "None"
                    /\ SubSeq(check_objs', 1, old) = check_objs
                    /\ node.kind = cls
                    /\ Len(node.checks) = Len(args)
                    /\ \A k \in DOMAIN args :
                         IF IsCheck(args[k])
                           THEN node.checks[k] = args[k].id
                         ELSE /\ node.checks[k] \in (old + 1)..(Len(check_objs') - 1)
                              /\ check_objs'[node.checks[k]] = Node("K", args[k].id, <<>>)
                    /\ \A j, k \in DOMAIN args :
                         (j /= k /\ ~IsCheck(args[k])) => node.checks[j] /= node.checks[k]
    ]_vars

\* CompoundCheck(2, check, 1) was called: the node has the K for 2, the
\* Check itself and the K for 1 as its children, in that order.
C17_Witness ==
  /\ check_objs = <<Node("Check", 0, <<>>), Node("K", 2, <<>>), Node("K", 1, <<>>),
                    Node("CompoundCheck", 0, <<2, 1, 3>>)>>
  /\ result = Outcome("CompoundCheck", "None", PyNone)

\* How many leaves of a chain of cls the operand v stands for: the number
\* of children when v is itself a cls node, one otherwise.
Width(cls, v) ==
  IF IsCheck(v) /\ check_objs[v.id].kind = cls THEN Len(check_objs[v.id].checks) ELSE 1

\* The child of the new node that stands for the operand v when v is not a
\* cls node: v itself, or a new K around it.
Stands(child, v) ==
  IF IsCheck(v) THEN child = v.id
  ELSE child > Len(check_objs) /\ check_objs'[child] = Node("K", v.id, <<>>)

\* C18: for And, Or and Add, combining n >= 3 leaves by repeated application
\* of the one operator, in any association, yields a single node of that kind
\* whose checks has length n and no child of the same kind.  Inductively:
\* no node of the kind has a child of the kind, and l op r has the leaves of
\* l followed by the leaves of r as its children.
C18_FlattenedChain ==
  [][/\ \A i \in DOMAIN check_objs' :
          check_objs'[i].kind \in FlattenableKinds =>
            \A k \in DOMAIN check_objs'[i].checks :
              check_objs'[check_objs'[i].checks[k]].kind /= check_objs'[i].kind
     /\ \A cls \in FlattenableKinds, lval \in Operands, rval \in Operands :
          (result'.op = cls /\ Check_binop(cls, lval, rval)) =>
            LET node == check_objs'[Len(check_objs')]
                wl == Width(cls, lval)
                wr == Width(cls, rval)
            IN /\ result'.err = "None"
               /\ node.kind = cls
               /\ Len(node.checks) = wl + wr
               /\ IF IsCheck(lval) /\ check_objs[lval.id].kind = cls
                    THEN SubSeq(node.checks, 1, wl) = check_objs[lval.id].checks
                  ELSE Stands(node.checks[1], lval)
               /\ IF IsCheck(rval) /\ check_objs[rval.id].kind = cls
                    THEN SubSeq(node.checks, wl + 1, wl + wr) = check_objs[rval.id].checks
                  ELSE Stands(node.checks[wl + 1], rval)
    ]_vars

\* (a & b) & (a & b), a mixed association of four leaves, is one And node
\* with the four leaves as its children.
C18_Witness ==
  /\ Len(check_objs) = 4
  /\ check_objs[1].kind = "GetV" /\ check_objs[2].kind = "GetV"
  /\ check_objs[3] = Node("And", 0, <<1, 2>>)
  /\ check_objs[4] = Node("And", 0, <<1, 2, 1, 2>>)
  /\ result.op = "And"

\* C19: subtraction never flattens: l - r is a Sub node with exactly two
\* children, l and r themselves (a K around a plain operand), also when l or
\* r is a Sub node, as in (a - b) - c and a - (b - c); no Sub node made by
\* the - operator has more than 2 children.
C19_SubNeverFlattens ==
  [][/\ \A i \in DOMAIN check_objs' :
          check_objs'[i].kind = "Sub" => Len(check_objs'[i].checks) = 2
     /\ \A lval \in Operands, rval \in Operands :
          (result'.op = "Sub" /\ Check_binop("Sub", lval, rval)) =>
            LET node == check_objs'[Len(check_objs')] IN
            /\ result'.err = "None"
            /\ node.kind = "Sub"
            /\ Len(node.checks) = 2
            /\ Stands(node.checks[1], lval)
            /\ Stands(node.checks[2], rval)
            /\ SubSeq(check_objs', 1, Len(check_objs)) = check_objs
    ]_vars

\* With b = a - a: b - a has the Sub node b and a as its children, and
\* a - (b - a) has a and the Sub node for b - a.
C19_Witness ==
  /\ Len(check_objs) = 4
  /\ check_objs[1].kind = "GetV"
  /\ check_objs[2] = Node("Sub", 0, <<1, 1>>)
  /\ check_objs[3] = Node("Sub", 0, <<2, 1>>)
  /\ check_objs[4] = Node("Sub", 0, <<1, 3>>)
  /\ result.op = "Sub"

\* What a leaf's check gives on the instance: GetV reads the instance at its
\* index, K is its constant whatever the instance.
LeafResult(c, instance) == IF c.kind = "GetV" THEN instance[c.val + 1] ELSE c.val

\* op(...op(op(r1, r2), r3)..., rn) for the results rs = r1..rn.
RECURSIVE FoldLeft(_, _)
FoldLeft(cls, rs) ==
  IF Len(rs) = 1 THEN rs[1]
  ELSE OP(cls, FoldLeft(cls, SubSeq(rs, 1, Len(rs) - 1)), rs[Len(rs)])

\* The accumulator nodes whose children are all leaves that have a value.
LeafAccumulator(i) ==
  /\ i \in DOMAIN check_objs
  /\ check_objs[i].kind \in AccumulatorKinds
  /\ \A k \in DOMAIN check_objs[i].checks :
       check_objs[check_objs[i].checks[k]].kind \in {"GetV", "K"}

\* C20: for an accumulator node (And, Or, Add, Sub) with children c1..cn,
\* check(instance) evaluates every child once, in order, on the instance and
\* returns op(...op(op(r1, r2), r3)..., rn), ri being ci's result; the fold
\* starts from r1 and uses no identity element.  Stated for nodes whose
\* children are GetV and K leaves.
C20_AccumulatorFold ==
  [][\A i \in CheckIds, instance \in Instances :
       (LeafAccumulator(i) /\ Evaluate(i, instance)) =>
         LET checks == check_objs[i].checks
             rs == [k \in DOMAIN checks |-> LeafResult(check_objs[checks[k]], instance)]
         IN /\ result'.err = "None"
            /\ result'.ret = PyResult(FoldLeft(check_objs[i].kind, rs))
    ]_vars

\* Property objects a and b are bound to different (owning type, field name)
\* pairs.
BoundApart(a, b) ==
  /\ Has(accessors[a]) /\ Has(accessors[b])
  /\ <<Val(accessors[a]).cls, Val(accessors[a]).name>> /=
       <<Val(accessors[b]).cls, Val(accessors[b]).name>>

\* C21: accessors bound to different (owning type, field name) pairs never
\* address the same slot of an instance: a set through one never changes
\* the value read through the other, also when both types take part in one
\* instance through inheritance.
C21_SlotsNeverCollide ==
  [][\A o \in ObjIds, n \in SlotNames, v \in StoreValues :
       (Has(objects[o].cls) /\ SetAttr(o, n, v)) =>
         LET a == Val(class_attr(Val(objects[o].cls), n)).id IN
         \A b \in AccIds :
           BoundApart(a, b) =>
             /\ Val(accessors[a]).attribute_name /= Val(accessors[b]).attribute_name
             /\ Property_get(b, objects'[o].attrs) = Property_get(b, objects[o].attrs)
    ]_vars

\* Every property value read on instance y is what it was.
SameValues(y) ==
  /\ objects'[y] = objects[y]
  /\ machines'[y] = machines[y]
  /\ \A a \in AccIds :
       Property_get(a, objects'[y].attrs) = Property_get(a, objects[y].attrs)

\* C22: for distinct instances x and y of the same type, a set or delete of
\* a property on x, and a transition invoked on x when x is a machine,
\* leaves every property value of y, its current state included, unchanged.
C22_InstancesKeepApart ==
  [][\A x \in TwinIds, y \in TwinIds :
       x /= y =>
         /\ \A v \in StoreValues :
              (result'.op = "set" /\ objects[x].cls = objects[y].cls
                 /\ SetAttr(x, "a", v)) => SameValues(y)
         /\ (result'.op = "del" /\ objects[x].cls = objects[y].cls
                 /\ DelAttr(x, "a")) => SameValues(y)
         /\ \A n \in AttrNames :
              (result'.op = "call" /\ machines[x].cls = machines[y].cls
                 /\ CallTransitioner(x, n)) => SameValues(y)
    ]_vars

\* Two machines of one type stand in different states after a transition
\* on one of them, next to two instances of one type that hold different
\* values of the same property.
C22_Witness ==
  /\ result.op = "call" /\ result.err = "None"
  /\ Has(machines[1].cls) /\ machines[1].cls = machines[2].cls
  /\ Has(machines[1].state) /\ Has(machines[2].state)
  /\ machines[1].state /= machines[2].state
  /\ Has(objects[1].cls) /\ objects[1].cls = objects[2].cls
  /\ DOMAIN objects[1].attrs /= {} /\ DOMAIN objects[2].attrs /= {}
  /\ objects[1].attrs /= objects[2].attrs

\* The operands that take the place of v among the children of an X node:
\* the children of v when v is an X node, v otherwise.
Spliced(X, v) ==
  IF IsCheck(v) /\ check_objs[v.id].kind = X
    THEN [k \in DOMAIN check_objs[v.id].checks |-> Ref(check_objs[v.id].checks[k])]
  ELSE <<v>>

\* C23: for X in {And, Or, Add}, X.make(l, r) returns an X node whose
\* children are the children of l if l is an X node, otherwise l itself,
\* followed by the children of r if r is an X node, otherwise r itself; a
\* compound operand of another kind is kept as a single child and the order
\* of the leaves is preserved.  An operand that is not a Check appears as
\* the K that wraps it.
C23_MakeSplices ==
  [][\A X \in FlattenableKinds, l \in Operands, r \in Operands :
       (result'.op = "make" /\ Make(X, l, r)) =>
         LET node == check_objs'[Len(check_objs')]
             expected == Spliced(X, l) \o Spliced(X, r)
         IN /\ result'.err = "None"
            /\ node.kind = X
            /\ Len(node.checks) = Len(expected)
            /\ \A k \in DOMAIN expected : Stands(node.checks[k], expected[k])
            /\ \A v \in {l, r} :
                 (IsCheck(v) /\ check_objs[v.id].kind \in CompoundKinds \ {X}) =>
                   /\ \E k \in DOMAIN node.checks : node.checks[k] = v.id
                   /\ check_objs'[v.id] = check_objs[v.id]
    ]_vars

\* And.make(o, n) for the Or node o = Or.make(g, g) and the And node
\* n = And.make(o, g): o stays one child, n's children o and g follow.
C23_Witness ==
  /\ Len(check_objs) = 4
  /\ check_objs[1].kind = "GetV"
  /\ check_objs[2] = Node("Or", 0, <<1, 1>>)
  /\ check_objs[3] = Node("And", 0, <<2, 1>>)
  /\ check_objs[4] = Node("And", 0, <<2, 2, 1>>)
  /\ result = Outcome("make", "None", PyNone)

\* C24: when an accumulator node has a child that is a constant leaf K(v),
\* check(instance) succeeds and that child contributes v to the fold whatever
\* the instance is.  Stated for nodes whose children are leaves, at least
\* one of them a K.
C24_ConstantLeafEvaluates ==
  [][\A i \in CheckIds, instance \in Instances :
       (/\ LeafAccumulator(i)
        /\ \E k \in DOMAIN check_objs[i].checks :
             check_objs[check_objs[i].checks[k]].kind = "K"
        /\ Evaluate(i, instance)) =>
         LET checks == check_objs[i].checks
             contributed == [k \in DOMAIN checks |->
                               IF check_objs[checks[k]].kind = "K"
                                 THEN check_objs[checks[k]].val
                               ELSE instance[check_objs[checks[k]].val + 1]]
         IN /\ result'.err /= "TypeError"
            /\ result' = Outcome("check", "None",
                                  PyResult(FoldLeft(check_objs[i].kind, contributed)))
    ]_vars

\* validators[i] is v1 & v2 or v1 | v2 for two mock functions (a Validator
\* around one on the left), whose calls the log shows one by one.
OverMocks(i) ==
  /\ i \in DOMAIN validators
  /\ validators[i].op \in {"and", "or"}
  /\ validators[validators[i].args[1]].op = "func"
  /\ validators[validators[i].args[2]].op = "func"

\* C25, as stated: (v1 & v2)(x) and (v1 | v2)(x) evaluate both v1(x) and
\* v2(x) on every call, whatever v1(x) returns.
C25_CombinatorsEager ==
  [][\A i \in ValidatorIds, x \in XValues :
       (OverMocks(i) /\ CallValidator(i, x)) =>
         calls' = << <<validators[i].args[1], x>>, <<validators[i].args[2], x>> >>
    ]_vars

\* C25, amended: v1(x) is evaluated on every call, and v2(x) exactly when
\* v1(x) does not settle the result: for & when v1(x) is truthy, for | when
\* v1(x) is falsy.
C25_CombinatorsEvaluateAsNeeded ==
  [][\A i \in ValidatorIds, x \in XValues :
       (OverMocks(i) /\ CallValidator(i, x)) =>
         LET v1 == validators[i].args[1]
             v2 == validators[i].args[2]
             truthy == validators[v1].table[x] /= 0
             needed == IF validators[i].op = "and" THEN truthy ELSE ~truthy
         IN calls' = IF needed THEN << <<v1, x>>, <<v2, x>> >> ELSE << <<v1, x>> >>
    ]_vars

\* v1 | v2 was called with a value v1 accepts: v2 was not called.
C25_Witness ==
  /\ Len(validators) = 3
  /\ validators[3] = Derived("or", <<1, 2>>)
  /\ validators[1].op = "func" /\ validators[2].op = "func"
  /\ validators[2].kind = "Validator"
  /\ validators[1].table[2] /= 0
  /\ result.op = "call" /\ IsTrue(result.ret)
  /\ calls = << <<1, 2>> >>

\* The value instance o gives when read through property object a, if any.
Read(o, a) == Property_get(a, objects[o].attrs)

C27_OneCreationCounter ==
  [][/\ \A i \in DOMAIN source_order :
          i \in DOMAIN source_order' /\ source_order'[i] = source_order[i]
     /\ \A j \in DOMAIN source_order' \ DOMAIN source_order :
          \A i \in DOMAIN source_order : source_order'[j] > source_order[i]
     /\ \A i, j \in DOMAIN source_order' :
          i /= j => source_order'[i] /= source_order'[j]
    ]_vars

\* A SubClass instance was created between two SourceOrdered instances and
\* a State after them: their source_order values are 0, 1, 2 and 3.
C27_Witness ==
  /\ {21, 22, 31, 1} \subseteq DOMAIN source_order
  /\ source_order[21] = 0
  /\ source_order[31] = 1
  /\ source_order[22] = 2
  /\ source_order[1] = 3

(* -------------------- explicit initial-state override ------------------- *)
\* The State a body's INIT line names.
Override(body) ==
  LET k == CHOOSE k \in DOMAIN body : body[k].name = "INIT" IN body[k].value.id

\* The States a body declares under a name other than INIT.
NamedStates(body) ==
  {body[k].value.id : k \in {j \in DOMAIN body : /\ body[j].name /= "INIT"
                                                  /\ body[j].value.kind = "State"}}

\* C28: a machine type whose body sets INIT to one of its declared States
\* that is not the earliest-declared one finalizes without error, and the
\* INIT every new instance starts from is the overriding State.
C28_OverrideStartsMachine ==
  [][\A c \in MachineTypes, body \in OverrideBodies :
       (/\ mtypes[c].status = "absent"
        /\ Override(body) \in NamedStates(body)
        /\ NamedStates(body) \subseteq Created
        /\ \E e \in NamedStates(body) :
             source_order[e] < source_order[Override(body)]
        /\ DeclareMachine(c, body))
       => /\ result'.err = "None"
          /\ mtypes'[c].status = "ok"
          /\ mtypes'[c].INIT = Some(Override(body))]_vars

(* ------------------------- next_state as a query ------------------------ *)
\* What next_state is to return: the destination of the current state, or
\* None when it is not a source (a transition built from no entries has none).
Mapped(i, t) == IF IsSource(i, t) THEN Destination(i, t) ELSE PyNone

\* C29: reading next_state on a machine that has a current state returns the
\* destination the transition maps that state to, or None when the state is
\* not a source, raises nothing and leaves the machine's state as it was; a
\* read that follows a read returns the same result.
C29_NextStateIsPureQuery ==
  [][\A i \in InstIds, n \in AttrNames :
       (/\ i \in Alive
        /\ Has(machines[i].state)
        /\ ReadNextState(i, n))
       => /\ result'.err = "None"
          /\ result'.ret = Mapped(i, mtypes[ClassOf(i)].transition_by_name[n])
          /\ machines' = machines
          /\ result.op = "next_state" => result' = result]_vars

(* ----------------------- flattening keeps the value --------------------- *)
\* C30: for And, Or and Add and leaves a, b, c with results ra, rb, rc on
\* the instance, the node built by (a op b) op c and by a op (b op c) is the
\* flat node over a, b, c, and its check returns op(op(ra, rb), rc), which
\* equals op(ra, op(rb, rc)).
C30_FlatteningKeepsValue ==
  [][\A cls \in FlattenableKinds \cap AccumulatorKinds, left \in BOOLEAN,
        instance \in FlatInstances, a, b, c \in {k + 1 : k \in FlatIndexes} :
       (/\ result'.op = "check"
        /\ {a, b, c} \subseteq DOMAIN check_objs
        /\ CheckAssociated(cls, a, b, c, left, instance))
       => LET ra == instance[check_objs[a].val + 1]
              rb == instance[check_objs[b].val + 1]
              rc == instance[check_objs[c].val + 1]
          IN /\ check_objs'[Len(check_objs')] = Node(cls, 0, <<a, b, c>>)
             /\ result'.err = "None"
             /\ result'.ret = PyResult(OP(cls, OP(cls, ra, rb), rc))
             /\ OP(cls, OP(cls, ra, rb), rc) = OP(cls, ra, OP(cls, rb, rc))]_vars

\* GetV(0) + (GetV(1) + GetV(2)) checked on [5, -2, 3]: the inner sum is
\* node 4, the flat sum over the three leaves is node 5 and gives 6.
C30_Witness ==
  /\ Len(check_objs) = 5
  /\ \A k \in 1..3 : check_objs[k] = Node("GetV", k - 1, <<>>)
  /\ check_objs[4] = Node("Add", 0, <<2, 3>>)
  /\ check_objs[5] = Node("Add", 0, <<1, 2, 3>>)
  /\ calls = <<5, 1, 2, 3>>
  /\ result = Outcome("check", "None", PyResult(6))

====
